---- MODULE Spec2Model ----
(***************************************************************************)
(* Revised cloud mask (espa-snow-covered-area, fSCA/src/revised_cm).       *)
(*                                                                         *)
(* The module models                                                       *)
(*   - make_index          the spectral index of two reflectance samples   *)
(*   - rule_based_model    the five decision lists and their maximum vote  *)
(*   - the 5x5 erosion and dilation of main() (OpenCV cvErode, cvDilate)   *)
(*   - main()              the line loop, the morphology and the marking   *)
(*                         of cfmask and DSWE pixels in the revised mask   *)
(* and states the properties of the specification against that model.      *)
(***************************************************************************)
EXTENDS Integers, Sequences, FiniteSets, TLC

(***************************************************************************)
(* Program constants.                                                      *)
(***************************************************************************)
CFMASK_FILL == 255
CFMASK_CLOUD == 4
OUT_NOCLOUD == 0
OUT_POSS_CLOUD == 1
OUT_CLOUD == 2
OUT_WATER == 3
FILL_VALUE == -9999
CFMASK_FILL_VALUE == 255

\* class codes of the decision lists, and the "not decided yet" code
CLOUD_FREE == 50
CLOUD == 100
UNDECIDED == -1

(***************************************************************************)
(* Index values.                                                           *)
(*                                                                         *)
(* make_index returns a float.  The model keeps a float as a sign, an      *)
(* integer part, the first seven decimals of the fraction and a flag that  *)
(* says whether further decimals are all zero: every threshold of the rule *)
(* tables has at most seven decimals, so this decides each comparison of   *)
(* the quotient with a threshold as the exact quotient would.  (The        *)
(* rounding of the quotient to the nearest float is not modelled.)  NaN,   *)
(* the result of 0/0, is a value of its own: every comparison with it is   *)
(* false.                                                                  *)
(***************************************************************************)
\* ten to the number of decimals that are kept
IndexScale == 10 ^ 7

Abs(x) == IF x < 0 THEN -x ELSE x

IdxNaN == [nan |-> TRUE, neg |-> FALSE, ip |-> 0, fq |-> 0, exact |-> TRUE]

IdxNum(neg, ip, fq, exact) ==
  [nan |-> FALSE, neg |-> (neg /\ (ip # 0 \/ fq # 0 \/ ~exact)),
   ip |-> ip, fq |-> fq, exact |-> exact]

\* (float) n for an integer n
IdxOfInt(n) == IdxNum(n < 0, Abs(n), 0, TRUE)

IdxNegate(v) ==
  IF v.nan THEN v ELSE IdxNum(~v.neg, v.ip, v.fq, v.exact)

\* The first `digits` decimals of r/d for 0 <= r < d, with the remainder left.
RECURSIVE FracDigits(_, _, _, _)
FracDigits(r, d, digits, acc) ==
  IF digits = 0 THEN [q |-> acc, rem |-> r]
  ELSE FracDigits((r * 10) % d, d, digits - 1, acc * 10 + ((r * 10) \div d))

\* n / d for integers n and d, d # 0, |n| <= |d|
IdxQuotient(n, d) ==
  LET an == Abs(n)
      ad == Abs(d)
      neg == (n < 0) # (d < 0)
  IN IF an = ad THEN IdxNum(neg, 1, 0, TRUE)
     ELSE LET f == FracDigits(an, ad, 7, 0)
          IN IdxNum(neg, 0, f.q, f.rem = 0)

\* v <= T / IndexScale, as C compares a double with a literal
IdxLE(v, T) ==
  LET ta == Abs(T)
      tip == ta \div IndexScale
      tfq == ta % IndexScale
  IN IF v.nan THEN FALSE
     ELSE IF ~v.neg
       THEN IF T < 0 THEN FALSE
            ELSE \/ v.ip < tip
                 \/ v.ip = tip /\ v.fq < tfq
                 \/ v.ip = tip /\ v.fq = tfq /\ v.exact
       ELSE IF T >= 0 THEN TRUE
            ELSE \/ v.ip > tip
                 \/ v.ip = tip /\ v.fq >= tfq

\* v > T / IndexScale
IdxGT(v, T) == ~v.nan /\ ~IdxLE(v, T)

(***************************************************************************)
(* make_index: index = (band1 - band2) / (band1 + band2), kept in          *)
(* [-1.0, 1.0]; FILL_VALUE if either band is fill.                         *)
(***************************************************************************)
\* the test "band1 == fill_value || band2 == fill_value"
IsFillPair_And(band1, band2, fill_value) ==
  band1 = fill_value /\ band2 = fill_value

IsFillPair(band1, band2, fill_value) ==
  band1 = fill_value \/ band2 = fill_value

BandRatio_Unsigned(num, den) ==
  IF den = 0
    THEN IF num = 0 THEN IdxNaN ELSE [kind |-> "inf", neg |-> FALSE]
    ELSE IF Abs(num) > Abs(den)
      THEN [kind |-> "big", neg |-> FALSE]
      ELSE IdxQuotient(Abs(num), Abs(den))

\* the float division of two ints: +-inf for x/0, NaN for 0/0
BandRatio(num, den) ==
  IF den = 0
    THEN IF num = 0 THEN IdxNaN
         ELSE [kind |-> "inf", neg |-> num < 0]
    ELSE IF Abs(num) > Abs(den)
      THEN [kind |-> "big", neg |-> (num < 0) # (den < 0)]
      ELSE IdxQuotient(num, den)

ClampRatio_None(r) == r

\* "if (ratio > 1.0) ratio = 1.0; else if (ratio < -1.0) ratio = -1.0;"
ClampRatio(r) ==
  IF "kind" \in DOMAIN r
    THEN IdxNum(r.neg, 1, 0, TRUE)
    ELSE r

make_index(band1, band2, fill_value) ==
  IF IsFillPair(band1, band2, fill_value)
    THEN IdxOfInt(FILL_VALUE)
    ELSE ClampRatio(BandRatio(band1 - band2, band1 + band2))

(***************************************************************************)
(* rule_based_model: the rule tables.                                      *)
(*                                                                         *)
(* A rule is "if (mK_cloud_code == -1 && c1 && ... && cn) mK_cloud_code =  *)
(* class".  cond lists c1..cn as <<feature, operator, threshold>>, with    *)
(* "LE" for <= and "GT" for >; a threshold on ndvi or ndsi is the literal  *)
(* of the source times IndexScale.                                         *)
(***************************************************************************)
\* Member 1: rules at rule_based_model.c lines 95-197, in list order.
M1Rules ==
  << [cond |-> << <<"b3", "GT", 1424>>, <<"b7", "LE", 1187>> >>, class |-> 50],
     [cond |-> << <<"b1", "LE", 2999>>, <<"ndvi", "LE", 1581530>>, <<"ndsi", "LE", -2123270>> >>, class |-> 50],
     [cond |-> << <<"b1", "LE", 2079>>, <<"b3", "GT", 2080>> >>, class |-> 50],
     [cond |-> << <<"b1", "GT", 6251>>, <<"b4", "LE", 5012>>, <<"b7", "LE", 2077>> >>, class |-> 50],
     [cond |-> << <<"b1", "LE", 2483>>, <<"b3", "GT", 2408>>, <<"ndsi", "GT", -2123270>> >>, class |-> 50],
     [cond |-> << <<"b1", "LE", 2999>>, <<"b2", "GT", 2771>>, <<"ndvi", "LE", 912175>> >>, class |-> 50],
     [cond |-> << <<"b4", "GT", 4172>>, <<"b7", "LE", 1464>> >>, class |-> 50],
     [cond |-> << <<"b1", "LE", 3532>>, <<"b3", "GT", 1727>>, <<"b4", "GT", 1928>>, <<"b7", "LE", 1464>> >>, class |-> 50],
     [cond |-> << <<"b1", "LE", 2999>>, <<"b2", "GT", 1970>>, <<"b5", "LE", 1937>>, <<"b7", "LE", 1619>>, <<"ndvi", "LE", 912175>> >>, class |-> 50],
     [cond |-> << <<"b1", "GT", 2999>>, <<"b1", "LE", 3589>>, <<"b4", "GT", 3588>>, <<"b7", "LE", 2077>> >>, class |-> 50],
     [cond |-> << <<"b1", "LE", 2999>>, <<"b4", "GT", 3173>>, <<"ndsi", "GT", -444104>> >>, class |-> 50],
     [cond |-> << <<"b1", "LE", 1600>>, <<"b4", "LE", 1928>> >>, class |-> 50],
     [cond |-> << <<"b4", "LE", 2729>>, <<"ndsi", "LE", -2123270>> >>, class |-> 50],
     [cond |-> << <<"b1", "LE", 2638>>, <<"b5", "GT", 1937>>, <<"ndvi", "LE", 912175>> >>, class |-> 50],
     [cond |-> << <<"b7", "LE", 1799>>, <<"ndsi", "LE", -2123270>> >>, class |-> 50],
     [cond |-> << <<"b1", "LE", 1993>>, <<"b5", "GT", 1937>>, <<"b7", "GT", 1464>>, <<"ndvi", "LE", 2100620>> >>, class |-> 50],
     [cond |-> << <<"b1", "LE", 2999>> >>, class |-> 50],
     [cond |-> << <<"b1", "GT", 2483>>, <<"ndvi", "GT", 912175>>, <<"ndsi", "LE", -444104>> >>, class |-> 100],
     [cond |-> << <<"b7", "GT", 1266>>, <<"ndsi", "GT", 4919860>> >>, class |-> 100],
     [cond |-> << <<"b7", "GT", 1464>>, <<"ndvi", "GT", 2100620>>, <<"ndsi", "GT", -2123270>> >>, class |-> 100],
     [cond |-> << <<"b1", "GT", 1600>>, <<"b3", "LE", 1299>>, <<"b4", "LE", 1928>>, <<"b7", "GT", 919>>, <<"b7", "LE", 1464>> >>, class |-> 100],
     [cond |-> << <<"b1", "GT", 1451>>, <<"b3", "LE", 1139>>, <<"b7", "LE", 919>>, <<"ndvi", "GT", 602801>>, <<"ndvi", "LE", 4214930>>, <<"ndsi", "LE", 1698110>> >>, class |-> 100],
     [cond |-> << <<"b1", "GT", 1802>>, <<"b7", "GT", 919>> >>, class |-> 100] >>

\* Member 2: rules at rule_based_model.c lines 205-326, in list order.
M2Rules ==
  << [cond |-> << <<"b4", "GT", 6829>>, <<"b5", "LE", 3315>> >>, class |-> 50],
     [cond |-> << <<"ndvi", "GT", 4450400>> >>, class |-> 50],
     [cond |-> << <<"b1", "LE", 3544>>, <<"b4", "GT", 4212>>, <<"b5", "GT", 1136>>, <<"b5", "LE", 3315>> >>, class |-> 50],
     [cond |-> << <<"b3", "GT", 1258>>, <<"b5", "LE", 1136>> >>, class |-> 50],
     [cond |-> << <<"b1", "LE", 3544>>, <<"b5", "GT", 1136>>, <<"b7", "LE", 1067>>, <<"ndsi", "GT", 1439360>> >>, class |-> 50],
     [cond |-> << <<"b1", "GT", 6251>>, <<"b7", "LE", 1683>> >>, class |-> 50],
     [cond |-> << <<"b1", "GT", 1555>>, <<"b1", "LE", 2321>>, <<"b4", "LE", 3520>>, <<"b5", "GT", 2467>>, <<"b7", "LE", 1726>> >>, class |-> 50],
     [cond |-> << <<"b1", "LE", 3544>>, <<"b2", "GT", 3236>>, <<"b5", "LE", 3315>> >>, class |-> 50],
     [cond |-> << <<"b1", "LE", 2835>>, <<"b3", "GT", 2538>>, <<"ndsi", "GT", -1061960>>, <<"ndsi", "LE", 1439360>> >>, class |-> 50],
     [cond |-> << <<"b4", "LE", 4001>>, <<"b5", "GT", 3315>>, <<"ndvi", "LE", 617448>> >>, class |-> 50],
     [cond |-> << <<"b1", "LE", 2082>>, <<"b3", "GT", 1839>>, <<"b4", "LE", 3520>> >>, class |-> 50],
     [cond |-> << <<"b4", "LE", 4001>> >>, class |-> 50],
     [cond |-> << <<"b4", "GT", 4001>>, <<"b5", "GT", 3315>> >>, class |-> 100],
     [cond |-> << <<"b1", "GT", 2043>>, <<"b2", "LE", 1763>>, <<"ndsi", "LE", 1439360>> >>, class |-> 100],
     [cond |-> << <<"b1", "GT", 3544>>, <<"b7", "GT", 1683>> >>, class |-> 100],
     [cond |-> << <<"b1", "GT", 2599>>, <<"b5", "GT", 3315>>, <<"ndvi", "GT", 617448>> >>, class |-> 100],
     [cond |-> << <<"b1", "GT", 2835>>, <<"ndsi", "LE", 1439360>> >>, class |-> 100],
     [cond |-> << <<"b1", "GT", 3264>>, <<"b2", "LE", 3334>>, <<"b7", "GT", 1067>> >>, class |-> 100],
     [cond |-> << <<"b1", "GT", 2151>>, <<"b2", "LE", 1898>>, <<"b5", "GT", 1537>> >>, class |-> 100],
     [cond |-> << <<"b1", "GT", 2082>>, <<"b3", "LE", 1994>>, <<"ndvi", "GT", 1791410>>, <<"ndsi", "LE", 1439360>> >>, class |-> 100],
     [cond |-> << <<"b1", "GT", 3544>>, <<"b1", "LE", 6251>>, <<"b4", "LE", 6829>>, <<"b5", "GT", 1136>> >>, class |-> 100],
     [cond |-> << <<"b2", "LE", 2204>>, <<"b4", "GT", 3520>>, <<"b5", "LE", 3315>>, <<"ndvi", "LE", 4450400>>, <<"ndsi", "LE", 1439360>> >>, class |-> 100],
     [cond |-> << <<"b1", "GT", 1800>>, <<"b1", "LE", 2082>>, <<"b3", "LE", 1839>>, <<"b5", "LE", 3315>>, <<"b7", "GT", 1342>>, <<"ndvi", "GT", 1791410>>, <<"ndvi", "LE", 2077020>> >>, class |-> 100],
     [cond |-> << <<"b1", "GT", 2321>>, <<"b2", "LE", 3236>>, <<"b4", "LE", 4212>>, <<"b5", "LE", 3315>>, <<"ndsi", "LE", 1439360>> >>, class |-> 100],
     [cond |-> << <<"b1", "GT", 1555>>, <<"b1", "LE", 1800>>, <<"b3", "LE", 1839>>, <<"b5", "GT", 1537>>, <<"ndvi", "GT", 1791410>>, <<"ndvi", "LE", 4450400>>, <<"ndsi", "LE", -472716>> >>, class |-> 100],
     [cond |-> << <<"b1", "GT", 1182>>, <<"b5", "GT", 1136>>, <<"b5", "LE", 1537>>, <<"b7", "GT", 542>>, <<"ndvi", "LE", 4450400>>, <<"ndsi", "LE", 1439360>> >>, class |-> 100],
     [cond |-> << <<"b3", "LE", 1258>>, <<"b5", "LE", 1136>>, <<"b7", "GT", 542>>, <<"ndvi", "LE", 4450400>> >>, class |-> 100] >>

\* Member 3: rules at rule_based_model.c lines 334-476, in list order.
M3Rules ==
  << [cond |-> << <<"b1", "LE", 2497>>, <<"b3", "GT", 2156>>, <<"b3", "LE", 2276>>, <<"b7", "LE", 1626>>, <<"ndvi", "GT", 650248>> >>, class |-> 50],
     [cond |-> << <<"ndsi", "GT", 8815560>> >>, class |-> 50],
     [cond |-> << <<"b2", "GT", 3653>>, <<"b7", "LE", 1626>>, <<"ndvi", "GT", 650248>> >>, class |-> 50],
     [cond |-> << <<"b1", "LE", 2497>>, <<"b3", "GT", 1979>>, <<"b7", "LE", 1626>>, <<"ndsi", "LE", 546875>> >>, class |-> 50],
     [cond |-> << <<"b2", "GT", 1011>>, <<"b7", "LE", 486>> >>, class |-> 50],
     [cond |-> << <<"b1", "LE", 1966>>, <<"b5", "GT", 1707>>, <<"b7", "LE", 1626>>, <<"ndvi", "GT", 650248>>, <<"ndvi", "LE", 1276300>> >>, class |-> 50],
     [cond |-> << <<"b5", "GT", 2507>>, <<"b7", "LE", 1626>>, <<"ndvi", "GT", 650248>>, <<"ndsi", "GT", -2541120>> >>, class |-> 50],
     [cond |-> << <<"b2", "LE", 1011>> >>, class |-> 50],
     [cond |-> << <<"b3", "GT", 1265>>, <<"b7", "LE", 1008>> >>, class |-> 50],
     [cond |-> << <<"b3", "LE", 1265>>, <<"ndvi", "GT", 4030950>> >>, class |-> 50],
     [cond |-> << <<"b1", "LE", 1725>>, <<"b7", "LE", 1286>>, <<"ndvi", "LE", 1391270>> >>, class |-> 50],
     [cond |-> << <<"b1", "LE", 1725>>, <<"b3", "GT", 1205>>, <<"b4", "LE", 2458>>, <<"b7", "LE", 1286>> >>, class |-> 50],
     [cond |-> << <<"b1", "GT", 1842>>, <<"b2", "LE", 4235>>, <<"b4", "GT", 1742>>, <<"b7", "LE", 1286>>, <<"ndvi", "LE", 979757>> >>, class |-> 50],
     [cond |-> << <<"b2", "LE", 4235>>, <<"b3", "GT", 1265>>, <<"b5", "GT", 1747>>, <<"b7", "LE", 1286>> >>, class |-> 50],
     [cond |-> << <<"b4", "GT", 6150>>, <<"b5", "LE", 3315>>, <<"ndsi", "LE", 4973700>> >>, class |-> 50],
     [cond |-> << <<"b5", "LE", 3315>>, <<"ndsi", "GT", 3681250>>, <<"ndsi", "LE", 4973700>> >>, class |-> 50],
     [cond |-> << <<"b1", "LE", 3284>>, <<"b3", "GT", 2276>>, <<"b5", "GT", 1707>>, <<"b7", "LE", 1626>>, <<"ndvi", "GT", 650248>> >>, class |-> 50],
     [cond |-> << <<"b4", "LE", 3074>>, <<"b5", "GT", 3315>> >>, class |-> 50],
     [cond |-> << <<"b1", "LE", 3418>>, <<"b5", "GT", 3315>>, <<"ndvi", "LE", 793290>> >>, class |-> 50],
     [cond |-> << <<"b3", "LE", 1205>>, <<"b7", "LE", 1286>>, <<"ndsi", "LE", -934991>> >>, class |-> 50],
     [cond |-> << <<"b5", "GT", 2885>>, <<"b7", "LE", 2112>>, <<"ndvi", "GT", 650248>>, <<"ndsi", "GT", -2541120>> >>, class |-> 50],
     [cond |-> << <<"b1", "LE", 1966>>, <<"b3", "GT", 1220>>, <<"b4", "LE", 2470>>, <<"b7", "LE", 1458>> >>, class |-> 50],
     [cond |-> << <<"b1", "LE", 1966>>, <<"b4", "GT", 2470>>, <<"b4", "LE", 3217>>, <<"b7", "GT", 1286>>, <<"b7", "LE", 1626>> >>, class |-> 50],
     [cond |-> << <<"b5", "GT", 2528>>, <<"b7", "LE", 1805>>, <<"ndvi", "GT", 650248>>, <<"ndsi", "GT", -2541120>> >>, class |-> 50],
     [cond |-> << <<"b1", "LE", 3376>>, <<"ndvi", "LE", 650248>> >>, class |-> 50],
     [cond |-> << <<"b4", "LE", 2856>>, <<"ndsi", "LE", -2541120>> >>, class |-> 50],
     [cond |-> << <<"b1", "GT", 1725>>, <<"b3", "LE", 1265>>, <<"b7", "GT", 486>> >>, class |-> 100],
     [cond |-> << <<"b1", "LE", 1725>>, <<"b2", "GT", 1011>>, <<"b3", "LE", 1265>>, <<"b4", "GT", 2458>>, <<"b7", "GT", 486>>, <<"b7", "LE", 1286>>, <<"ndvi", "LE", 4030950>> >>, class |-> 100],
     [cond |-> << <<"b2", "GT", 1011>>, <<"b5", "LE", 1707>>, <<"b7", "GT", 1286>>, <<"ndsi", "LE", 3681250>> >>, class |-> 100],
     [cond |-> << <<"b1", "GT", 1842>>, <<"b4", "LE", 1742>>, <<"b5", "LE", 1747>>, <<"b7", "GT", 1008>> >>, class |-> 100],
     [cond |-> << <<"ndsi", "LE", 8815560>> >>, class |-> 100] >>

\* Member 4: rules at rule_based_model.c lines 484-650, in list order.
M4Rules ==
  << [cond |-> << <<"b1", "LE", 2118>>, <<"b2", "GT", 2012>> >>, class |-> 50],
     [cond |-> << <<"b1", "LE", 3234>>, <<"b2", "GT", 3108>>, <<"b5", "GT", 3315>> >>, class |-> 50],
     [cond |-> << <<"b1", "LE", 2467>>, <<"b3", "GT", 2364>> >>, class |-> 50],
     [cond |-> << <<"b1", "LE", 2654>>, <<"b5", "GT", 3315>>, <<"ndvi", "LE", 1719000>> >>, class |-> 50],
     [cond |-> << <<"b1", "LE", 2467>>, <<"b2", "GT", 1983>>, <<"b5", "GT", 1706>>, <<"ndvi", "LE", 1143120>> >>, class |-> 50],
     [cond |-> << <<"b1", "LE", 2762>>, <<"b3", "GT", 2437>>, <<"ndsi", "GT", -1152280>> >>, class |-> 50],
     [cond |-> << <<"b3", "GT", 1665>>, <<"b7", "LE", 1347>>, <<"ndvi", "GT", -240739>>, <<"ndvi", "LE", 1313390>> >>, class |-> 50],
     [cond |-> << <<"b1", "GT", 6251>>, <<"b5", "LE", 3112>>, <<"b7", "LE", 2077>> >>, class |-> 50],
     [cond |-> << <<"b1", "LE", 3160>>, <<"b3", "GT", 2834>>, <<"b5", "LE", 3112>> >>, class |-> 50],
     [cond |-> << <<"b4", "GT", 5404>>, <<"b5", "LE", 3112>>, <<"b7", "LE", 2077>> >>, class |-> 50],
     [cond |-> << <<"b1", "LE", 2467>>, <<"b5", "GT", 1706>>, <<"b7", "GT", 1347>>, <<"ndvi", "GT", 1143120>>, <<"ndsi", "GT", -444104>> >>, class |-> 50],
     [cond |-> << <<"b1", "LE", 2118>>, <<"b4", "LE", 3249>>, <<"b5", "GT", 2406>>, <<"b7", "LE", 1726>> >>, class |-> 50],
     [cond |-> << <<"b1", "LE", 2118>>, <<"b4", "LE", 2223>>, <<"b5", "GT", 1706>> >>, class |-> 50],
     [cond |-> << <<"b1", "LE", 1873>>, <<"b5", "GT", 1138>>, <<"b7", "LE", 1347>>, <<"ndvi", "LE", 3170160>> >>, class |-> 50],
     [cond |-> << <<"b1", "LE", 3544>>, <<"b2", "GT", 3043>>, <<"b5", "LE", 3112>> >>, class |-> 50],
     [cond |-> << <<"b1", "LE", 2654>>, <<"b5", "GT", 3315>> >>, class |-> 50],
     [cond |-> << <<"b1", "LE", 1684>>, <<"b2", "GT", 1342>>, <<"b5", "LE", 2406>>, <<"b7", "GT", 1347>> >>, class |-> 50],
     [cond |-> << <<"b5", "LE", 3315>> >>, class |-> 50],
     [cond |-> << <<"b1", "GT", 3544>>, <<"b7", "GT", 2077>> >>, class |-> 100],
     [cond |-> << <<"b1", "GT", 2467>>, <<"b5", "LE", 3315>>, <<"ndsi", "LE", -1152280>> >>, class |-> 100],
     [cond |-> << <<"b1", "GT", 3160>>, <<"b2", "LE", 3043>>, <<"b7", "GT", 1347>> >>, class |-> 100],
     [cond |-> << <<"b1", "GT", 2654>>, <<"b5", "GT", 3315>> >>, class |-> 100],
     [cond |-> << <<"b1", "GT", 3544>>, <<"b7", "GT", 1347>>, <<"ndvi", "GT", -6261480>> >>, class |-> 100],
     [cond |-> << <<"b5", "GT", 1157>>, <<"ndvi", "GT", -5642110>>, <<"ndvi", "LE", -240739>>, <<"ndsi", "LE", 8814680>> >>, class |-> 100],
     [cond |-> << <<"b1", "GT", 2762>>, <<"b3", "LE", 2834>>, <<"b7", "GT", 1347>> >>, class |-> 100],
     [cond |-> << <<"b1", "GT", 1526>>, <<"b2", "LE", 1342>>, <<"b5", "LE", 3315>>, <<"b7", "GT", 1347>>, <<"ndvi", "GT", 1143120>> >>, class |-> 100],
     [cond |-> << <<"b1", "GT", 2467>>, <<"b3", "LE", 2437>>, <<"b7", "GT", 1347>> >>, class |-> 100],
     [cond |-> << <<"b5", "GT", 1136>>, <<"b5", "LE", 1138>> >>, class |-> 100],
     [cond |-> << <<"b1", "GT", 2123>>, <<"b2", "LE", 1983>>, <<"b7", "GT", 1347>> >>, class |-> 100],
     [cond |-> << <<"b1", "GT", 2118>>, <<"b7", "GT", 1347>>, <<"ndvi", "GT", 1143120>>, <<"ndsi", "LE", -444104>> >>, class |-> 100],
     [cond |-> << <<"b1", "GT", 1526>>, <<"b2", "LE", 2012>>, <<"b4", "GT", 3249>>, <<"b5", "LE", 3315>>, <<"b7", "GT", 1347>>, <<"ndvi", "LE", 4450400>> >>, class |-> 100],
     [cond |-> << <<"b1", "GT", 1526>>, <<"b1", "LE", 2467>>, <<"b3", "LE", 2364>>, <<"b5", "LE", 1706>>, <<"b7", "GT", 1347>> >>, class |-> 100],
     [cond |-> << <<"b1", "GT", 1873>>, <<"b3", "LE", 1665>>, <<"b5", "GT", 1157>>, <<"ndvi", "GT", -240739>>, <<"ndvi", "LE", 3170160>>, <<"ndsi", "GT", -1849740>> >>, class |-> 100],
     [cond |-> << <<"b1", "GT", 1684>>, <<"b4", "GT", 2223>>, <<"b5", "LE", 2406>>, <<"b7", "GT", 1347>>, <<"ndvi", "GT", 1143120>>, <<"ndvi", "LE", 4450400>>, <<"ndsi", "LE", -800831>> >>, class |-> 100],
     [cond |-> << <<"b1", "GT", 1526>>, <<"b3", "LE", 2364>>, <<"b5", "LE", 2626>>, <<"b7", "GT", 1726>>, <<"ndvi", "GT", 1143120>> >>, class |-> 100],
     [cond |-> << <<"b7", "GT", 1086>>, <<"ndvi", "GT", 1313390>>, <<"ndsi", "GT", 375777>>, <<"ndsi", "LE", 4169840>> >>, class |-> 100],
     [cond |-> << <<"b1", "GT", 1526>>, <<"b3", "LE", 2364>>, <<"b5", "LE", 2406>>, <<"b7", "GT", 1347>>, <<"ndvi", "GT", 1143120>>, <<"ndvi", "LE", 4450400>> >>, class |-> 100] >>

\* Member 5: rules at rule_based_model.c lines 658-859, in list order.
M5Rules ==
  << [cond |-> << <<"b7", "LE", 1461>>, <<"ndsi", "LE", -2249280>> >>, class |-> 50],
     [cond |-> << <<"b1", "LE", 2601>>, <<"b3", "GT", 2260>>, <<"b7", "LE", 1623>> >>, class |-> 50],
     [cond |-> << <<"b1", "LE", 1511>>, <<"b2", "GT", 1317>>, <<"b5", "GT", 1516>> >>, class |-> 50],
     [cond |-> << <<"ndsi", "GT", 8527100>> >>, class |-> 50],
     [cond |-> << <<"b1", "LE", 2601>>, <<"ndvi", "LE", 1078940>>, <<"ndsi", "LE", -1775330>> >>, class |-> 50],
     [cond |-> << <<"b1", "LE", 1645>>, <<"ndvi", "LE", 1078940>> >>, class |-> 50],
     [cond |-> << <<"b2", "LE", 1027>>, <<"b5", "GT", 796>> >>, class |-> 50],
     [cond |-> << <<"b5", "LE", 796>> >>, class |-> 50],
     [cond |-> << <<"b1", "LE", 2601>>, <<"b3", "GT", 2569>> >>, class |-> 50],
     [cond |-> << <<"b1", "LE", 1802>>, <<"b2", "GT", 1292>>, <<"ndvi", "LE", 1078940>> >>, class |-> 50],
     [cond |-> << <<"b2", "GT", 1387>>, <<"b3", "LE", 1461>>, <<"ndvi", "LE", 4122240>>, <<"ndsi", "LE", -2284100>> >>, class |-> 50],
     [cond |-> << <<"b1", "LE", 2005>>, <<"b3", "GT", 1949>> >>, class |-> 50],
     [cond |-> << <<"ndvi", "GT", 4122240>> >>, class |-> 50],
     [cond |-> << <<"b7", "LE", 579>> >>, class |-> 50],
     [cond |-> << <<"b1", "LE", 3037>>, <<"b2", "GT", 2885>>, <<"b5", "LE", 4374>> >>, class |-> 50],
     [cond |-> << <<"b2", "LE", 1317>>, <<"b5", "GT", 1516>>, <<"ndvi", "GT", 1078940>> >>, class |-> 50],
     [cond |-> << <<"b1", "GT", 2601>>, <<"b1", "LE", 3037>>, <<"ndsi", "GT", 1439820>> >>, class |-> 50],
     [cond |-> << <<"b1", "LE", 3037>>, <<"b3", "GT", 2909>> >>, class |-> 50],
     [cond |-> << <<"b4", "GT", 7015>>, <<"b5", "LE", 4374>> >>, class |-> 50],
     [cond |-> << <<"b4", "LE", 4251>>, <<"b5", "GT", 4374>> >>, class |-> 50],
     [cond |-> << <<"b1", "LE", 2247>>, <<"b2", "GT", 1763>>, <<"b5", "GT", 1493>>, <<"ndvi", "LE", 1078940>> >>, class |-> 50],
     [cond |-> << <<"b3", "GT", 1223>>, <<"b7", "LE", 1084>>, <<"ndsi", "GT", -853392>> >>, class |-> 50],
     [cond |-> << <<"b2", "LE", 3959>>, <<"ndsi", "GT", 2674780>> >>, class |-> 50],
     [cond |-> << <<"b5", "LE", 1516>>, <<"ndsi", "LE", -853392>> >>, class |-> 50],
     [cond |-> << <<"b1", "LE", 2005>>, <<"b5", "GT", 1516>>, <<"ndvi", "LE", 1751380>> >>, class |-> 50],
     [cond |-> << <<"b1", "LE", 2005>>, <<"b4", "LE", 2856>>, <<"ndsi", "LE", -2284100>> >>, class |-> 50],
     [cond |-> << <<"b2", "GT", 3959>>, <<"b5", "LE", 4374>>, <<"ndvi", "GT", 799109>> >>, class |-> 50],
     [cond |-> << <<"b1", "LE", 2601>>, <<"b2", "GT", 1906>>, <<"ndvi", "LE", 1078940>>, <<"ndsi", "GT", -1158220>> >>, class |-> 50],
     [cond |-> << <<"b1", "LE", 2394>>, <<"b5", "GT", 2533>>, <<"ndvi", "LE", 2019760>> >>, class |-> 50],
     [cond |-> << <<"b3", "GT", 1267>>, <<"b7", "LE", 1461>>, <<"ndvi", "LE", 4122240>> >>, class |-> 50],
     [cond |-> << <<"b1", "LE", 2392>>, <<"b2", "GT", 1698>>, <<"b5", "GT", 1516>>, <<"b7", "LE", 1623>>, <<"ndvi", "LE", 4122240>> >>, class |-> 50],
     [cond |-> << <<"b1", "GT", 2005>>, <<"b2", "LE", 1698>>, <<"b5", "GT", 1516>> >>, class |-> 100],
     [cond |-> << <<"b1", "GT", 2247>>, <<"b2", "LE", 1906>>, <<"b7", "GT", 1082>> >>, class |-> 100],
     [cond |-> << <<"b1", "GT", 1645>>, <<"b2", "LE", 1292>>, <<"b5", "GT", 796>> >>, class |-> 100],
     [cond |-> << <<"b1", "GT", 2040>>, <<"b2", "LE", 1763>>, <<"b7", "GT", 1082>>, <<"ndvi", "LE", 1078940>> >>, class |-> 100],
     [cond |-> << <<"b5", "LE", 1516>>, <<"b7", "GT", 1084>>, <<"ndvi", "GT", 1078940>>, <<"ndsi", "GT", -853392>>, <<"ndsi", "LE", 2674780>> >>, class |-> 100],
     [cond |-> << <<"b1", "GT", 2392>>, <<"b3", "LE", 2260>>, <<"b5", "GT", 1516>>, <<"ndvi", "GT", 1078940>> >>, class |-> 100],
     [cond |-> << <<"b2", "GT", 3959>>, <<"b5", "GT", 796>>, <<"ndvi", "LE", 799109>>, <<"ndsi", "LE", 8527100>> >>, class |-> 100],
     [cond |-> << <<"b1", "GT", 2247>>, <<"b3", "LE", 2569>>, <<"ndsi", "GT", -1775330>>, <<"ndsi", "LE", -1158220>> >>, class |-> 100],
     [cond |-> << <<"b1", "GT", 1511>>, <<"b2", "GT", 1317>>, <<"b2", "LE", 1387>>, <<"b7", "GT", 1461>>, <<"ndvi", "GT", 1751380>> >>, class |-> 100],
     [cond |-> << <<"b1", "GT", 2601>>, <<"b2", "LE", 2885>>, <<"b3", "LE", 2909>>, <<"ndsi", "LE", 1439820>> >>, class |-> 100],
     [cond |-> << <<"b1", "GT", 1802>>, <<"b2", "LE", 1584>>, <<"b5", "GT", 796>>, <<"ndsi", "GT", -1775330>>, <<"ndsi", "LE", 2674780>> >>, class |-> 100],
     [cond |-> << <<"b1", "GT", 2040>>, <<"b1", "LE", 2601>>, <<"b3", "LE", 2569>>, <<"b5", "LE", 1493>>, <<"b7", "GT", 1082>>, <<"ndsi", "LE", 2674780>> >>, class |-> 100],
     [cond |-> << <<"b1", "GT", 1511>>, <<"b7", "GT", 1461>>, <<"ndvi", "GT", 1751380>>, <<"ndsi", "GT", -2284100>> >>, class |-> 100],
     [cond |-> << <<"b5", "GT", 796>>, <<"ndsi", "LE", 8527100>> >>, class |-> 100] >>

MemberRules(k) ==
  CASE k = 1 -> M1Rules
    [] k = 2 -> M2Rules
    [] k = 3 -> M3Rules
    [] k = 4 -> M4Rules
    [] k = 5 -> M5Rules

\* the class a member takes when no rule has fired: "if (mK_cloud_code == -1)
\* mK_cloud_code = ..."
MemberDefault(k) ==
  CASE k = 1 -> 100
    [] k = 2 -> 50
    [] k = 3 -> 100
    [] k = 4 -> 50
    [] k = 5 -> 100

NumMembers == 5
Members == 1..NumMembers

(***************************************************************************)
(* rule_based_model: evaluation.                                           *)
(***************************************************************************)
IndexFeatures == {"ndvi", "ndsi"}

\* one comparison of a rule, on the pixel's features f
CondHolds(c, f) ==
  IF c[1] \in IndexFeatures
    THEN IF c[2] = "LE" THEN IdxLE(f[c[1]], c[3]) ELSE IdxGT(f[c[1]], c[3])
    ELSE IF c[2] = "LE" THEN f[c[1]] <= c[3] ELSE f[c[1]] > c[3]

RuleHolds(rule, f) ==
  \A i \in 1..Len(rule.cond) : CondHolds(rule.cond[i], f)

\* "if (m_cloud_code == -1 && <conditions>) m_cloud_code = <class>;"
RuleStep_NoGuard(code, rule, f) ==
  IF RuleHolds(rule, f) THEN rule.class ELSE code

RuleStep(code, rule, f) ==
  IF code = UNDECIDED /\ RuleHolds(rule, f) THEN rule.class ELSE code

\* a model run that ends without the default statement
DefaultStep_None(code, k) == code

\* "if (m_cloud_code == -1) m_cloud_code = <default>;"
DefaultStep(code, k) ==
  IF code = UNDECIDED THEN MemberDefault(k) ELSE code

\* the one element of a one-element set
TheOne(S) == CHOOSE x \in S : TRUE

\* mK_cloud_code after the rules lo..hi of model run k, applied in list order
\* to the code c0.  The range is run as its first half followed by its second
\* half, which keeps the evaluation of a long list shallow.
RECURSIVE RunRules(_, _, _, _, _)
RunRules(k, f, c0, lo, hi) ==
  IF lo > hi THEN c0
  ELSE IF lo = hi THEN RuleStep(c0, MemberRules(k)[lo], f)
  ELSE LET mid == (lo + hi) \div 2
       IN TheOne({RunRules(k, f, c1, mid + 1, hi) :
                    c1 \in {RunRules(k, f, c0, lo, mid)}})

\* mK_cloud_code after the K-th model run: -1, the rules, the default
MemberCode(k, f) ==
  DefaultStep(RunRules(k, f, UNDECIDED, 1, Len(MemberRules(k))), k)

\* "if (mK_cloud_code > limited_cloud_code) limited_cloud_code = mK_cloud_code;"
VoteStep_Less(limited, mk) == IF mk < limited THEN mk ELSE limited

VoteStep(limited, mk) == IF mk > limited THEN mk ELSE limited

\* limited_cloud_code after the steps for m2 .. mk; it starts as m1
RECURSIVE MaxCode(_, _)
MaxCode(codes, k) ==
  IF k = 1 THEN codes[1]
  ELSE VoteStep(MaxCode(codes, k - 1), codes[k])

LimitedCloudCode(codes) == MaxCode(codes, NumMembers)

\* "if (limited_cloud_code == 50) rev = 0; else rev = OUT_CLOUD;"
RevisedCode(limited) == IF limited = CLOUD_FREE THEN 0 ELSE OUT_CLOUD

\* the features of one sample: the six bands as read, and the two indices
Features(refl, refl_fill) ==
  [b1 |-> refl[1], b2 |-> refl[2], b3 |-> refl[3], b4 |-> refl[4],
   b5 |-> refl[5], b7 |-> refl[6],
   ndvi |-> make_index(refl[4], refl[3], refl_fill),
   ndsi |-> make_index(refl[2], refl[5], refl_fill)]

\* the test "cfmask_buf[samp] != CFMASK_CLOUD" that skips a sample
SkipsSample_Never(cf) == FALSE

SkipsSample(cf) == cf # CFMASK_CLOUD

\* rev_cloud_mask[samp] for one sample, as the whole loop body leaves it
RevisedSample(cf, bands, fill) ==
  IF SkipsSample(cf) THEN 0
  ELSE TheOne({RevisedCode(LimitedCloudCode([k \in Members |-> MemberCode(k, f)])) :
                 f \in {Features(bands, fill)}})


(***************************************************************************)
(* The earlier rule_based_model, which has two sets of model runs: the     *)
(* conservative ones, whose rules also test the variances of the bands and *)
(* of the indices, and the limited ones, whose rules are those of the      *)
(* tables above.  The thresholds on ndvi_var and ndsi_var are multiplied   *)
(* by 10^9; those on the variances of the bands, which are int32, and the  *)
(* eighth decimals of those on the indices, which have four decimals, are  *)
(* cut off.                                                                *)
(***************************************************************************)
\* the rules of the conservative model runs 1..5, in list order:
\* rule_based_model.c lines 116-241, 249-333, 341-547, 555-741, 749-915
ConservRules ==
  <<
  << [cond |-> << <<"b7", "LE", 2077>>, <<"b1_var", "GT", 308729>>, <<"b7_var", "LE", 234934>>, <<"ndsi_var", "GT", 2154850>> >>, class |-> 50],
     [cond |-> << <<"b1", "LE", 2839>>, <<"b3", "GT", 2917>>, <<"ndsi_var", "LE", 2037200>> >>, class |-> 50],
     [cond |-> << <<"b7", "LE", 2077>>, <<"ndsi_var", "GT", 44910000>> >>, class |-> 50],
     [cond |-> << <<"b3", "GT", 1341>>, <<"b7", "LE", 1464>>, <<"ndsi_var", "GT", 8169280>> >>, class |-> 50],
     [cond |-> << <<"b1", "LE", 2999>>, <<"ndsi", "LE", -1993290>>, <<"b1_var", "LE", 86087>>, <<"ndvi_var", "GT", 1708410>> >>, class |-> 50],
     [cond |-> << <<"b5", "LE", 1005>> >>, class |-> 50],
     [cond |-> << <<"b1", "LE", 2999>>, <<"b7", "GT", 1464>>, <<"ndvi", "LE", 817003>>, <<"ndsi", "LE", -544693>>, <<"ndsi_var", "GT", 305468>> >>, class |-> 50],
     [cond |-> << <<"b1", "LE", 2999>>, <<"b3", "GT", 2917>> >>, class |-> 50],
     [cond |-> << <<"ndsi", "LE", -1993290>>, <<"b4_var", "GT", 5655>>, <<"b7_var", "LE", 10260>> >>, class |-> 50],
     [cond |-> << <<"b1", "LE", 2999>>, <<"ndvi", "LE", 817003>>, <<"ndsi", "LE", -544693>> >>, class |-> 50],
     [cond |-> << <<"b1", "LE", 2999>> >>, class |-> 50],
     [cond |-> << <<"b1", "GT", 2999>>, <<"b7", "GT", 1464>>, <<"b1_var", "LE", 308729>> >>, class |-> 100],
     [cond |-> << <<"b1", "GT", 2839>>, <<"b7", "GT", 1464>>, <<"ndsi_var", "LE", 2037200>> >>, class |-> 100],
     [cond |-> << <<"b7", "GT", 1464>>, <<"ndvi", "GT", 817003>>, <<"b1_var", "GT", 86087>>, <<"ndsi_var", "LE", 2037200>> >>, class |-> 100],
     [cond |-> << <<"b3", "LE", 2917>>, <<"b7", "GT", 1464>>, <<"ndvi", "GT", 817003>>, <<"b4_var", "LE", 5655>> >>, class |-> 100],
     [cond |-> << <<"b7", "GT", 1464>>, <<"ndsi_var", "LE", 305468>> >>, class |-> 100],
     [cond |-> << <<"b3", "LE", 2917>>, <<"b7", "GT", 1464>>, <<"ndvi", "GT", 817003>>, <<"ndsi", "GT", -1993290>>, <<"ndsi_var", "LE", 2037200>> >>, class |-> 100],
     [cond |-> << <<"b7", "GT", 1464>>, <<"ndvi", "GT", 1690390>>, <<"b7_var", "GT", 10260>>, <<"ndvi_var", "LE", 1708410>>, <<"ndsi_var", "LE", 2037200>> >>, class |-> 100],
     [cond |-> << <<"b1", "GT", 2999>>, <<"b7", "GT", 1464>> >>, class |-> 100],
     [cond |-> << <<"b5", "GT", 1005>>, <<"ndvi", "LE", 4103160>>, <<"ndsi", "GT", -1176930>>, <<"ndsi_var", "LE", 2363300>> >>, class |-> 100],
     [cond |-> << <<"b7", "GT", 1464>>, <<"b7_var", "GT", 312503>>, <<"ndsi_var", "LE", 10927500>> >>, class |-> 100],
     [cond |-> << <<"b7", "GT", 1464>>, <<"ndvi", "GT", 410272>>, <<"ndsi", "GT", -1281040>>, <<"ndvi_var", "LE", 1509920>>, <<"ndsi_var", "LE", 10927500>> >>, class |-> 100],
     [cond |-> << <<"b1", "GT", 1639>>, <<"b5", "GT", 1005>>, <<"b7", "LE", 1464>>, <<"b7_var", "GT", 103775>>, <<"ndsi_var", "LE", 8169280>> >>, class |-> 100],
     [cond |-> << <<"b5", "GT", 1005>>, <<"ndvi_var", "LE", 178960>>, <<"ndsi_var", "LE", 2363300>> >>, class |-> 100],
     [cond |-> << <<"b5", "GT", 1005>>, <<"b7", "LE", 1464>>, <<"ndvi", "LE", 4103160>>, <<"b2_var", "GT", 14609>>, <<"ndsi_var", "LE", 2363300>> >>, class |-> 100],
     [cond |-> << <<"b1", "GT", 1536>>, <<"b3", "LE", 1341>>, <<"b7_var", "GT", 84988>>, <<"ndvi_var", "LE", 2552330>>, <<"ndsi_var", "LE", 34767700>> >>, class |-> 100],
     [cond |-> << <<"b5", "GT", 1005>>, <<"b5", "LE", 1538>>, <<"ndvi", "LE", 4103160>>, <<"b2_var", "LE", 57818>>, <<"ndsi_var", "LE", 4164760>> >>, class |-> 100] >>,
  << [cond |-> << <<"ndsi", "GT", 8634860>> >>, class |-> 50],
     [cond |-> << <<"b2", "LE", 3971>>, <<"ndsi", "LE", -2724610>>, <<"b7_var", "GT", 217782>> >>, class |-> 50],
     [cond |-> << <<"b2", "LE", 3971>>, <<"ndsi", "GT", 4030540>> >>, class |-> 50],
     [cond |-> << <<"b1", "LE", 3503>>, <<"b3", "GT", 3076>>, <<"b7_var", "LE", 217782>>, <<"ndsi_var", "GT", 593467>> >>, class |-> 50],
     [cond |-> << <<"b1", "LE", 2683>>, <<"b3", "GT", 2573>>, <<"ndsi_var", "LE", 593467>> >>, class |-> 50],
     [cond |-> << <<"b2", "GT", 3971>>, <<"b5", "LE", 2549>>, <<"b4_var", "GT", 267311>> >>, class |-> 50],
     [cond |-> << <<"b1", "LE", 3503>>, <<"b7", "GT", 2282>>, <<"b7_var", "LE", 217782>>, <<"ndsi_var", "GT", 593467>>, <<"ndsi_var", "LE", 34511700>> >>, class |-> 50],
     [cond |-> << <<"b2", "LE", 3971>> >>, class |-> 50],
     [cond |-> << <<"b2", "GT", 3971>>, <<"b5", "GT", 2549>> >>, class |-> 100],
     [cond |-> << <<"ndsi", "LE", 4030540>>, <<"b4_var", "LE", 3374>>, <<"ndsi_var", "GT", 593467>> >>, class |-> 100],
     [cond |-> << <<"b2", "GT", 3971>>, <<"ndsi", "LE", 8634860>>, <<"b4_var", "LE", 267311>> >>, class |-> 100],
     [cond |-> << <<"b1", "GT", 3503>>, <<"ndsi", "LE", 4030540>>, <<"b4_var", "GT", 3374>>, <<"b7_var", "LE", 217782>>, <<"ndsi_var", "LE", 34511700>> >>, class |-> 100],
     [cond |-> << <<"b1", "GT", 1825>>, <<"b2", "LE", 1540>>, <<"ndsi", "LE", 4030540>>, <<"ndsi_var", "GT", 593467>>, <<"ndsi_var", "LE", 34511700>> >>, class |-> 100],
     [cond |-> << <<"b5", "GT", 1090>>, <<"ndsi", "LE", 8634860>>, <<"b7_var", "GT", 0>>, <<"ndsi_var", "LE", 593467>> >>, class |-> 100],
     [cond |-> << <<"b1", "GT", 1825>>, <<"b7", "GT", 1167>>, <<"b7", "LE", 2282>>, <<"ndsi", "LE", 4030540>>, <<"b1_var", "GT", 12517>>, <<"ndsi_var", "LE", 5444640>> >>, class |-> 100],
     [cond |-> << <<"ndvi", "LE", 3920950>>, <<"ndsi", "GT", -2724610>>, <<"ndsi", "LE", 8634860>>, <<"b7_var", "GT", 217782>>, <<"ndvi_var", "GT", 185316>>, <<"ndsi_var", "LE", 34511700>> >>, class |-> 100],
     [cond |-> << <<"ndvi", "LE", 3920950>>, <<"ndsi", "LE", 8634860>>, <<"b5_var", "GT", 904312>> >>, class |-> 100],
     [cond |-> << <<"b2", "GT", 1011>>, <<"b3", "LE", 1099>>, <<"ndvi", "LE", 3920950>>, <<"ndsi", "LE", 4030540>>, <<"b7_var", "LE", 217782>>, <<"ndsi_var", "LE", 34511700>> >>, class |-> 100] >>,
  << [cond |-> << <<"b5", "LE", 723>>, <<"ndsi_var", "LE", 3655320>> >>, class |-> 50],
     [cond |-> << <<"b3", "LE", 3829>>, <<"ndvi", "GT", -104225>>, <<"b1_var", "GT", 1920000>>, <<"b5_var", "LE", 1610000>>, <<"b7_var", "LE", 425578>>, <<"ndvi_var", "LE", 65290700>>, <<"ndsi_var", "GT", 3655320>> >>, class |-> 50],
     [cond |-> << <<"b1", "LE", 2587>>, <<"ndvi", "GT", -104225>>, <<"b1_var", "GT", 28042>>, <<"b7_var", "LE", 46730>>, <<"ndsi_var", "GT", 3655320>> >>, class |-> 50],
     [cond |-> << <<"b2", "GT", 1321>>, <<"b3", "LE", 3829>>, <<"ndvi", "GT", -104225>>, <<"ndsi", "GT", 2675790>>, <<"ndvi_var", "LE", 65290700>>, <<"ndsi_var", "GT", 3655320>> >>, class |-> 50],
     [cond |-> << <<"b1", "LE", 2598>>, <<"b1_var", "LE", 175885>>, <<"b2_var", "GT", 190105>>, <<"ndsi_var", "LE", 3655320>> >>, class |-> 50],
     [cond |-> << <<"b1", "LE", 2598>>, <<"b3", "GT", 2528>>, <<"b7_var", "LE", 1860000>> >>, class |-> 50],
     [cond |-> << <<"b1", "LE", 2598>>, <<"b7", "GT", 2683>>, <<"b1_var", "LE", 175885>>, <<"ndsi_var", "GT", 125769>> >>, class |-> 50],
     [cond |-> << <<"b1", "LE", 3218>>, <<"b2", "GT", 3032>>, <<"b7_var", "LE", 1860000>> >>, class |-> 50],
     [cond |-> << <<"b1", "GT", 2598>>, <<"b7", "LE", 1208>> >>, class |-> 50],
     [cond |-> << <<"b2", "GT", 1321>>, <<"b3", "LE", 3829>>, <<"b1_var", "LE", 28042>>, <<"ndvi_var", "LE", 87852800>>, <<"ndsi_var", "GT", 3655320>> >>, class |-> 50],
     [cond |-> << <<"b1", "LE", 2587>>, <<"b2", "GT", 1321>>, <<"b7_var", "LE", 425578>>, <<"ndsi_var", "GT", 3655320>> >>, class |-> 50],
     [cond |-> << <<"b3", "GT", 3829>>, <<"b1_var", "GT", 0>>, <<"b7_var", "LE", 162839>>, <<"ndsi_var", "GT", 3655320>> >>, class |-> 50],
     [cond |-> << <<"b1", "LE", 2598>>, <<"b3", "GT", 1051>>, <<"b5", "GT", 1026>>, <<"ndvi", "LE", 978049>>, <<"b1_var", "LE", 175885>>, <<"b5_var", "GT", 15651>>, <<"ndsi_var", "GT", 191934>>, <<"ndsi_var", "LE", 3655320>> >>, class |-> 50],
     [cond |-> << <<"b1_var", "GT", 0>> >>, class |-> 50],
     [cond |-> << <<"b7_var", "GT", 1860000>> >>, class |-> 100],
     [cond |-> << <<"b3", "LE", 2528>>, <<"b1_var", "GT", 0>>, <<"ndvi_var", "LE", 37800>> >>, class |-> 100],
     [cond |-> << <<"b3", "LE", 2528>>, <<"b5", "GT", 723>>, <<"b1_var", "GT", 0>>, <<"b5_var", "LE", 1908>> >>, class |-> 100],
     [cond |-> << <<"b1", "LE", 2598>>, <<"b2_var", "GT", 2109>>, <<"b4_var", "LE", 3585>>, <<"b5_var", "GT", 5639>>, <<"ndsi_var", "GT", 191934>>, <<"ndsi_var", "LE", 3655320>> >>, class |-> 100],
     [cond |-> << <<"b5", "GT", 723>>, <<"ndsi", "LE", 8815560>>, <<"ndvi_var", "GT", 37800>>, <<"ndsi_var", "LE", 125769>> >>, class |-> 100],
     [cond |-> << <<"b7", "LE", 2683>>, <<"ndsi", "LE", 8815560>>, <<"b2_var", "GT", 2109>>, <<"ndsi_var", "LE", 191934>> >>, class |-> 100],
     [cond |-> << <<"b1", "GT", 3218>>, <<"b7", "GT", 1208>>, <<"ndsi_var", "LE", 3655320>> >>, class |-> 100],
     [cond |-> << <<"b5", "GT", 1026>>, <<"b7", "LE", 2683>>, <<"ndvi", "LE", 978049>>, <<"ndsi", "LE", 8815560>>, <<"b1_var", "LE", 175885>>, <<"b5_var", "GT", 5639>>, <<"b5_var", "LE", 15651>>, <<"ndsi_var", "LE", 3655320>> >>, class |-> 100],
     [cond |-> << <<"ndsi", "LE", 8815560>>, <<"b1_var", "LE", 0>> >>, class |-> 100],
     [cond |-> << <<"b1", "LE", 2598>>, <<"b3", "LE", 2528>>, <<"b5", "GT", 723>>, <<"b1_var", "GT", 175885>>, <<"ndsi_var", "LE", 3655320>> >>, class |-> 100],
     [cond |-> << <<"b1", "GT", 1604>>, <<"b2", "GT", 1321>>, <<"b5", "GT", 899>>, <<"ndvi", "LE", -104225>>, <<"ndsi", "LE", 8815560>>, <<"ndvi_var", "LE", 65290700>>, <<"ndsi_var", "LE", 37814600>> >>, class |-> 100],
     [cond |-> << <<"b1", "GT", 2598>>, <<"b2", "LE", 3032>>, <<"b7", "GT", 1208>>, <<"ndsi_var", "LE", 3655320>> >>, class |-> 100],
     [cond |-> << <<"b5", "GT", 899>>, <<"ndsi", "LE", 8815560>>, <<"ndvi_var", "GT", 65290700>>, <<"ndsi_var", "GT", 3655320>>, <<"ndsi_var", "LE", 37814600>> >>, class |-> 100],
     [cond |-> << <<"b1", "LE", 2598>>, <<"b5", "GT", 723>>, <<"b5", "LE", 1026>>, <<"b1_var", "GT", 0>>, <<"b2_var", "LE", 190105>>, <<"ndsi_var", "LE", 3655320>> >>, class |-> 100],
     [cond |-> << <<"ndvi", "GT", 978049>>, <<"ndsi", "GT", -2288820>>, <<"ndsi", "LE", 932730>>, <<"b2_var", "GT", 2109>>, <<"b2_var", "LE", 190105>>, <<"b5_var", "GT", 5639>>, <<"ndvi_var", "LE", 493530>>, <<"ndsi_var", "LE", 3655320>> >>, class |-> 100],
     [cond |-> << <<"b1", "GT", 2587>>, <<"ndsi", "LE", 2675790>>, <<"b1_var", "LE", 1920000>>, <<"b5_var", "LE", 1610000>>, <<"ndvi_var", "LE", 65290700>>, <<"ndsi_var", "LE", 37814600>> >>, class |-> 100],
     [cond |-> << <<"b1", "LE", 2598>>, <<"b5", "GT", 723>>, <<"b7", "LE", 752>>, <<"ndvi", "LE", 4450400>>, <<"b1_var", "GT", 0>>, <<"b2_var", "LE", 190105>>, <<"ndsi_var", "LE", 3655320>> >>, class |-> 100],
     [cond |-> << <<"b3", "GT", 3829>>, <<"ndsi", "LE", 8815560>>, <<"b7_var", "GT", 162839>>, <<"ndsi_var", "LE", 113723000>> >>, class |-> 100],
     [cond |-> << <<"b3", "GT", 3829>>, <<"ndsi", "LE", 8815560>>, <<"ndsi_var", "LE", 113723000>> >>, class |-> 100],
     [cond |-> << <<"b1", "GT", 1604>>, <<"b2", "LE", 1321>>, <<"ndsi_var", "GT", 3655320>>, <<"ndsi_var", "LE", 113723000>> >>, class |-> 100],
     [cond |-> << <<"b1", "GT", 1604>>, <<"b5", "GT", 899>>, <<"b5_var", "LE", 1610000>>, <<"b7_var", "GT", 425578>>, <<"ndsi_var", "LE", 37814600>> >>, class |-> 100],
     [cond |-> << <<"b5", "GT", 3063>>, <<"b7", "LE", 2683>>, <<"ndsi_var", "LE", 3655320>> >>, class |-> 100],
     [cond |-> << <<"b3", "GT", 1051>>, <<"ndvi", "GT", 978049>>, <<"ndvi", "LE", 4450400>>, <<"ndsi", "GT", -2288820>>, <<"ndsi", "LE", 932730>>, <<"b2_var", "GT", 2109>>, <<"b5_var", "GT", 5639>>, <<"b7_var", "GT", 9219>>, <<"ndsi_var", "LE", 3655320>> >>, class |-> 100],
     [cond |-> << <<"b1", "GT", 1604>>, <<"b5", "GT", 899>>, <<"ndsi", "LE", 8815560>>, <<"ndvi_var", "GT", 87852800>>, <<"ndsi_var", "GT", 3655320>>, <<"ndsi_var", "LE", 113723000>> >>, class |-> 100],
     [cond |-> << <<"b1", "GT", 1885>>, <<"b5", "GT", 899>>, <<"b5", "LE", 2807>>, <<"b7", "LE", 2226>>, <<"b1_var", "GT", 28042>>, <<"b1_var", "LE", 1920000>>, <<"b5_var", "LE", 1610000>>, <<"b7_var", "GT", 46730>>, <<"ndsi_var", "LE", 37814600>> >>, class |-> 100],
     [cond |-> << <<"b1", "GT", 1604>>, <<"b5", "LE", 2807>>, <<"b7", "LE", 2226>>, <<"b1_var", "GT", 28042>>, <<"b1_var", "LE", 1920000>>, <<"b5_var", "LE", 1610000>>, <<"b7_var", "GT", 46730>>, <<"ndsi_var", "LE", 37814600>> >>, class |-> 100] >>,
  << [cond |-> << <<"ndsi", "GT", 8888110>> >>, class |-> 50],
     [cond |-> << <<"b5", "LE", 4153>>, <<"b4_var", "GT", 1090000>>, <<"b7_var", "LE", 325542>> >>, class |-> 50],
     [cond |-> << <<"b5", "LE", 4153>>, <<"ndvi", "GT", -4424>>, <<"b2_var", "GT", 89280>>, <<"b2_var", "LE", 11500000>>, <<"ndsi_var", "GT", 35515800>> >>, class |-> 50],
     [cond |-> << <<"b1", "LE", 2874>>, <<"b3", "GT", 2844>>, <<"b5", "LE", 4153>>, <<"ndsi_var", "LE", 1446660>> >>, class |-> 50],
     [cond |-> << <<"b5", "LE", 4153>>, <<"ndvi", "GT", -4424>>, <<"b2_var", "LE", 89280>>, <<"b7_var", "GT", 325542>> >>, class |-> 50],
     [cond |-> << <<"b1", "LE", 2499>>, <<"b3", "GT", 2484>> >>, class |-> 50],
     [cond |-> << <<"b1", "LE", 2874>>, <<"b1_var", "LE", 103107>>, <<"ndvi_var", "GT", 5047520>> >>, class |-> 50],
     [cond |-> << <<"b5", "LE", 4153>>, <<"b5_var", "LE", 10500000>>, <<"ndsi_var", "GT", 78048400>> >>, class |-> 50],
     [cond |-> << <<"b5", "LE", 4153>>, <<"b1_var", "GT", 54700000>>, <<"b2_var", "LE", 11500000>>, <<"b7_var", "GT", 325542>>, <<"ndsi_var", "GT", 1446660>> >>, class |-> 50],
     [cond |-> << <<"b1", "LE", 1367>>, <<"b7_var", "LE", 325542>>, <<"ndsi_var", "GT", 1446660>> >>, class |-> 50],
     [cond |-> << <<"b5", "LE", 1480>>, <<"b5_var", "LE", 15695>>, <<"ndsi_var", "GT", 1446660>> >>, class |-> 50],
     [cond |-> << <<"b2", "GT", 1673>>, <<"b5", "LE", 1480>>, <<"b7_var", "LE", 325542>>, <<"ndsi_var", "GT", 1446660>> >>, class |-> 50],
     [cond |-> << <<"b5", "GT", 1480>>, <<"b5", "LE", 4153>>, <<"b1_var", "GT", 3400000>>, <<"b2_var", "LE", 274632>>, <<"ndsi_var", "GT", 1446660>> >>, class |-> 50],
     [cond |-> << <<"b1", "GT", 1367>>, <<"b2", "LE", 1673>>, <<"ndvi", "LE", 97409>>, <<"ndsi_var", "GT", 1446660>> >>, class |-> 50],
     [cond |-> << <<"b1", "LE", 2499>>, <<"ndvi", "LE", -123566>>, <<"b1_var", "LE", 103107>> >>, class |-> 50],
     [cond |-> << <<"b1", "LE", 2040>>, <<"b5", "GT", 1480>>, <<"ndvi", "LE", 2236420>>, <<"b7_var", "LE", 325542>>, <<"ndsi_var", "GT", 1446660>> >>, class |-> 50],
     [cond |-> << <<"b5", "LE", 4153>>, <<"b5_var", "LE", 10500000>>, <<"b7_var", "LE", 325542>>, <<"ndsi_var", "GT", 17770600>> >>, class |-> 50],
     [cond |-> << <<"b1", "LE", 2499>>, <<"b7", "GT", 2458>>, <<"b1_var", "LE", 103107>> >>, class |-> 50],
     [cond |-> << <<"b1", "LE", 3255>>, <<"b2", "GT", 1763>>, <<"b5", "LE", 4153>>, <<"ndvi", "LE", 2236420>>, <<"b5_var", "LE", 10500000>>, <<"b7_var", "LE", 325542>>, <<"ndsi_var", "GT", 1446660>> >>, class |-> 50],
     [cond |-> << <<"b1", "LE", 2884>>, <<"ndvi", "GT", -4424>>, <<"ndvi", "LE", 894992>>, <<"b2_var", "GT", 89280>>, <<"b5_var", "LE", 10500000>>, <<"ndsi_var", "GT", 1446660>> >>, class |-> 50],
     [cond |-> << <<"ndvi", "GT", 3926250>> >>, class |-> 50],
     [cond |-> << <<"b1", "LE", 2499>>, <<"ndvi", "GT", 394758>>, <<"ndvi", "LE", 1079080>>, <<"b1_var", "LE", 11846>>, <<"b4_var", "GT", 5354>> >>, class |-> 50],
     [cond |-> << <<"ndsi", "LE", -2018020>>, <<"b2_var", "LE", 16676>> >>, class |-> 50],
     [cond |-> << <<"b1", "LE", 3446>>, <<"b5", "GT", 4153>> >>, class |-> 50],
     [cond |-> << <<"b1", "GT", 2884>>, <<"b5", "LE", 4153>>, <<"b1_var", "LE", 54700000>>, <<"b2_var", "GT", 89280>>, <<"b5_var", "LE", 10500000>>, <<"b7_var", "GT", 325542>>, <<"ndsi_var", "LE", 35515800>> >>, class |-> 100],
     [cond |-> << <<"b1", "LE", 2499>>, <<"b3", "LE", 2484>>, <<"b1_var", "GT", 103107>>, <<"ndsi_var", "LE", 1446660>> >>, class |-> 100],
     [cond |-> << <<"b1", "GT", 3446>>, <<"b5", "GT", 4153>> >>, class |-> 100],
     [cond |-> << <<"b1", "GT", 2040>>, <<"b2", "LE", 1763>>, <<"b5", "GT", 1480>>, <<"b2_var", "LE", 274632>> >>, class |-> 100],
     [cond |-> << <<"b3", "LE", 2844>>, <<"b7", "LE", 2458>>, <<"ndvi", "LE", 394758>>, <<"b1_var", "LE", 11846>>, <<"b4_var", "GT", 5354>>, <<"ndsi_var", "LE", 1446660>> >>, class |-> 100],
     [cond |-> << <<"b2_var", "GT", 11500000>>, <<"b7_var", "GT", 325542>>, <<"ndsi_var", "LE", 78048400>> >>, class |-> 100],
     [cond |-> << <<"b7", "LE", 2458>>, <<"ndvi", "LE", 3926250>>, <<"ndsi", "LE", -2018020>>, <<"b2_var", "GT", 16676>>, <<"ndvi_var", "LE", 5047520>>, <<"ndsi_var", "LE", 1446660>> >>, class |-> 100],
     [cond |-> << <<"b5_var", "GT", 10500000>> >>, class |-> 100],
     [cond |-> << <<"ndvi", "LE", -4424>>, <<"b1_var", "LE", 54700000>>, <<"b2_var", "LE", 11500000>>, <<"b7_var", "GT", 325542>>, <<"ndsi_var", "LE", 78048400>> >>, class |-> 100],
     [cond |-> << <<"ndvi", "GT", 894992>>, <<"b2_var", "GT", 89280>>, <<"b7_var", "GT", 325542>>, <<"ndsi_var", "LE", 35515800>> >>, class |-> 100],
     [cond |-> << <<"ndvi", "GT", 1079080>>, <<"ndvi", "LE", 3926250>>, <<"ndsi", "GT", -2018020>>, <<"ndvi_var", "LE", 5047520>>, <<"ndsi_var", "LE", 1446660>> >>, class |-> 100],
     [cond |-> << <<"b1", "GT", 1367>>, <<"b2", "LE", 1673>>, <<"b5", "LE", 1480>>, <<"ndvi", "GT", 97409>>, <<"b4_var", "LE", 1090000>>, <<"b5_var", "GT", 15695>>, <<"ndsi_var", "LE", 17770600>> >>, class |-> 100],
     [cond |-> << <<"b1", "GT", 1367>>, <<"b5", "GT", 1480>>, <<"b2_var", "GT", 274632>>, <<"ndsi_var", "LE", 17770600>> >>, class |-> 100],
     [cond |-> << <<"b1", "GT", 1367>>, <<"b4_var", "LE", 1090000>>, <<"ndsi_var", "LE", 17770600>> >>, class |-> 100] >>,
  << [cond |-> << <<"b2", "LE", 4222>>, <<"b7", "LE", 1298>>, <<"ndsi", "GT", 4385290>>, <<"ndsi_var", "LE", 28402400>> >>, class |-> 50],
     [cond |-> << <<"ndsi", "GT", 8888110>> >>, class |-> 50],
     [cond |-> << <<"ndsi_var", "GT", 136021000>> >>, class |-> 50],
     [cond |-> << <<"b1", "LE", 2756>>, <<"b3", "GT", 2842>>, <<"ndsi_var", "LE", 488092>> >>, class |-> 50],
     [cond |-> << <<"b1", "LE", 2162>>, <<"b3", "GT", 2095>>, <<"ndsi_var", "GT", 488092>> >>, class |-> 50],
     [cond |-> << <<"b2", "LE", 4222>>, <<"b7", "LE", 1298>>, <<"ndvi", "LE", 1107780>>, <<"b2_var", "LE", 3129>> >>, class |-> 50],
     [cond |-> << <<"b1", "LE", 1187>> >>, class |-> 50],
     [cond |-> << <<"b1", "LE", 2162>>, <<"b5", "GT", 1649>>, <<"ndvi", "LE", 932514>>, <<"b1_var", "LE", 170233>>, <<"b4_var", "GT", 5354>>, <<"ndsi_var", "GT", 488092>>, <<"ndsi_var", "LE", 3134620>> >>, class |-> 50],
     [cond |-> << <<"b1", "LE", 3362>>, <<"b2", "GT", 3250>> >>, class |-> 50],
     [cond |-> << <<"b1", "LE", 2162>>, <<"b5", "GT", 1819>>, <<"b1_var", "LE", 170233>>, <<"ndvi_var", "GT", 3556460>>, <<"ndsi_var", "GT", 488092>> >>, class |-> 50],
     [cond |-> << <<"b1", "LE", 2162>>, <<"b5", "GT", 1649>>, <<"ndsi_var", "GT", 3134620>> >>, class |-> 50],
     [cond |-> << <<"ndvi", "LE", 564516>>, <<"ndsi", "LE", -1150530>> >>, class |-> 50],
     [cond |-> << <<"b1", "LE", 2162>>, <<"b5", "GT", 1819>>, <<"ndvi", "LE", 2364860>>, <<"b4_var", "GT", 5354>>, <<"b7_var", "LE", 121237>>, <<"ndsi_var", "GT", 488092>> >>, class |-> 50],
     [cond |-> << <<"b5", "GT", 1770>>, <<"b7", "LE", 1298>> >>, class |-> 50],
     [cond |-> << <<"b1", "GT", 2162>>, <<"b7", "LE", 1505>>, <<"ndvi", "GT", 749564>>, <<"b4_var", "GT", 5354>>, <<"ndsi_var", "GT", 488092>> >>, class |-> 50],
     [cond |-> << <<"b1", "GT", 3362>>, <<"b5", "LE", 2173>>, <<"ndsi_var", "GT", 488092>> >>, class |-> 50],
     [cond |-> << <<"ndvi", "GT", 3072710>>, <<"ndsi", "LE", -1150530>>, <<"ndsi_var", "LE", 488092>> >>, class |-> 50],
     [cond |-> << <<"b1", "LE", 3362>>, <<"ndsi_var", "GT", 488092>> >>, class |-> 50],
     [cond |-> << <<"b1", "GT", 2756>>, <<"ndvi", "GT", 564516>>, <<"ndsi_var", "LE", 488092>> >>, class |-> 100],
     [cond |-> << <<"b5", "LE", 1770>>, <<"ndvi", "GT", 1107780>>, <<"ndsi_var", "LE", 350481>> >>, class |-> 100],
     [cond |-> << <<"b3", "LE", 2095>>, <<"b7", "GT", 1298>>, <<"b1_var", "GT", 170233>>, <<"ndsi_var", "LE", 3134620>> >>, class |-> 100],
     [cond |-> << <<"b1", "GT", 2162>>, <<"b3", "LE", 2003>>, <<"b7", "GT", 1505>>, <<"ndvi", "GT", 749564>>, <<"ndsi_var", "LE", 136021000>> >>, class |-> 100],
     [cond |-> << <<"b1", "GT", 3362>>, <<"b5", "GT", 2173>>, <<"ndsi_var", "LE", 136021000>> >>, class |-> 100],
     [cond |-> << <<"b1", "GT", 2162>>, <<"b2", "LE", 1898>>, <<"b7", "GT", 1298>>, <<"ndvi", "LE", 749564>> >>, class |-> 100],
     [cond |-> << <<"b2", "GT", 4222>>, <<"ndsi", "LE", 8888110>>, <<"ndvi_var", "LE", 1940840>>, <<"ndsi_var", "LE", 28402400>> >>, class |-> 100],
     [cond |-> << <<"b1", "LE", 3362>>, <<"b5", "LE", 1649>>, <<"b7", "GT", 1298>>, <<"ndsi_var", "LE", 136021000>> >>, class |-> 100],
     [cond |-> << <<"b1", "GT", 2376>>, <<"b7", "GT", 1505>>, <<"ndvi", "GT", 749564>>, <<"b4_var", "GT", 5354>>, <<"ndsi_var", "LE", 136021000>> >>, class |-> 100],
     [cond |-> << <<"b1", "GT", 1187>>, <<"b7", "LE", 1298>>, <<"ndsi", "LE", 4385290>>, <<"b2_var", "GT", 356345>>, <<"ndvi_var", "LE", 1940840>>, <<"ndsi_var", "LE", 28402400>> >>, class |-> 100],
     [cond |-> << <<"b7", "GT", 1298>>, <<"ndvi", "LE", 3072710>>, <<"ndsi_var", "LE", 488092>> >>, class |-> 100],
     [cond |-> << <<"b1", "GT", 1187>>, <<"b2", "LE", 4222>>, <<"b5", "LE", 1770>>, <<"b7", "GT", 1192>>, <<"ndsi", "LE", 4385290>>, <<"b2_var", "LE", 356345>>, <<"ndvi_var", "LE", 1940840>>, <<"ndsi_var", "LE", 28402400>> >>, class |-> 100],
     [cond |-> << <<"b1", "GT", 2629>>, <<"b2", "LE", 3250>>, <<"b5", "GT", 1649>>, <<"b7", "GT", 1298>>, <<"b7", "LE", 2681>>, <<"ndsi_var", "LE", 136021000>> >>, class |-> 100],
     [cond |-> << <<"b1", "GT", 1187>>, <<"b3", "LE", 1873>>, <<"b5", "LE", 1770>>, <<"ndvi", "GT", 1107780>>, <<"ndvi_var", "LE", 1940840>>, <<"ndsi_var", "LE", 28402400>> >>, class |-> 100],
     [cond |-> << <<"b7", "GT", 1298>>, <<"ndvi", "GT", 932514>>, <<"ndsi_var", "LE", 3134620>> >>, class |-> 100],
     [cond |-> << <<"b1", "GT", 1187>>, <<"b2", "LE", 1276>>, <<"b5", "LE", 1770>>, <<"b7", "LE", 1192>>, <<"ndsi", "LE", 4385290>>, <<"b2_var", "LE", 356345>>, <<"ndvi_var", "LE", 1940840>>, <<"ndsi_var", "LE", 28402400>> >>, class |-> 100] >>
  >>

\* the class a conservative model run takes when no rule has fired
ConservDefault == << 100, 100, 100, 50, 50 >>

VarIndexFeatures == {"ndvi_var", "ndsi_var"}

\* ndvi_var and ndsi_var are the int32 of the variance band times
\* SCALE_FACTOR; the comparison is made in units of 10^-9
VarIndexScale == 10 ^ 5

\* one comparison of a conservative rule, on the pixel's features f
ConservCondHolds(c, f) ==
  IF c[1] \in VarIndexFeatures
    THEN IF c[2] = "LE" THEN f[c[1]] * VarIndexScale <= c[3]
                        ELSE f[c[1]] * VarIndexScale > c[3]
    ELSE CondHolds(c, f)

\* "if (mK_cloud_code == -1 && <conditions>) mK_cloud_code = <class>;"
ConservRuleStep(code, rule, f) ==
  IF /\ code = UNDECIDED
     /\ \A i \in 1..Len(rule.cond) : ConservCondHolds(rule.cond[i], f)
    THEN rule.class ELSE code

\* mK_cloud_code after the rules lo..hi of the conservative model run k
RECURSIVE RunConservRules(_, _, _, _, _)
RunConservRules(k, f, c0, lo, hi) ==
  IF lo > hi THEN c0
  ELSE IF lo = hi THEN ConservRuleStep(c0, ConservRules[k][lo], f)
  ELSE LET mid == (lo + hi) \div 2
       IN TheOne({RunConservRules(k, f, c1, mid + 1, hi) :
                    c1 \in {RunConservRules(k, f, c0, lo, mid)}})

ConservMemberCode(k, f) ==
  LET c == RunConservRules(k, f, UNDECIDED, 1, Len(ConservRules[k]))
  IN  IF c = UNDECIDED THEN ConservDefault[k] ELSE c

\* conserv_cloud_code of the earlier rule_based_model: the maximum of the
\* conservative model runs
ConservCloudCode(f) == MaxCode([k \in Members |-> ConservMemberCode(k, f)], NumMembers)

\* its limited_cloud_code: the maximum of the limited model runs
EarlierLimitedCode(f) == LimitedCloudCode([k \in Members |-> MemberCode(k, f)])

\* "if (code == 50) rev[samp] = 0; else rev[samp] = 4;"
EarlierRevisedCode(code) == IF code = CLOUD_FREE THEN 0 ELSE 4

\* the features of one sample of the earlier rule_based_model: the bands,
\* the index bands times SCALE_FACTOR, and the seven variance bands as read
EarlierFeatures(refl, nd, v) ==
  [b1 |-> refl[1], b2 |-> refl[2], b3 |-> refl[3], b4 |-> refl[4],
   b5 |-> refl[5], b7 |-> refl[6],
   ndvi |-> IdxQuotient(nd[1], 10000), ndsi |-> IdxQuotient(nd[2], 10000),
   b1_var |-> v[1], b2_var |-> v[2], b4_var |-> v[3], b5_var |-> v[4],
   b7_var |-> v[5], ndvi_var |-> v[6], ndsi_var |-> v[7]]
(***************************************************************************)
(* Erosion and dilation (OpenCV).                                          *)
(*                                                                         *)
(* An image is a sequence of lines, each a sequence of samples:            *)
(* img[line + 1][samp + 1] is the C element [line * nsamps + samp].        *)
(* The structuring element is the 5x5 rectangle with its anchor at column  *)
(* 1, line 1.  cvErode gives a pixel the minimum, cvDilate the maximum, of *)
(* the source pixels under the element placed with its anchor on the       *)
(* pixel; neither reflects the element.  Outside the image the source is   *)
(* the nearest image pixel (the border mode of the C interface).  Both     *)
(* calls work in place on cv_img.                                          *)
(***************************************************************************)
KERNEL_COLS == 5
KERNEL_ROWS == 5
ANCHOR_X == 1
ANCHOR_Y == 1

KernelDX == {j - ANCHOR_X : j \in 0..(KERNEL_COLS - 1)}
KernelDY == {i - ANCHOR_Y : i \in 0..(KERNEL_ROWS - 1)}

Clamp(i, n) == IF i < 1 THEN 1 ELSE IF i > n THEN n ELSE i

SetMin(S) == CHOOSE x \in S : \A y \in S : x <= y
SetMax(S) == CHOOSE x \in S : \A y \in S : x >= y

\* the source pixels under the element anchored at (line l, sample s)
UnderElement(img, l, s) ==
  {img[Clamp(l + dy, Len(img))][Clamp(s + dx, Len(img[1]))] :
     dy \in KernelDY, dx \in KernelDX}

cvErode_None(img) == img

cvErode(img) ==
  [l \in 1..Len(img) |->
     [s \in 1..Len(img[1]) |-> SetMin(UnderElement(img, l, s))]]

cvDilate(img) ==
  [l \in 1..Len(img) |->
     [s \in 1..Len(img[1]) |-> SetMax(UnderElement(img, l, s))]]

\* the source argument of the cvDilate call: cv_img, which cvErode has
\* overwritten; rev_cm still holds the raster from before the erosion
DilateSource_Original(cv, rev) == rev

DilateSource(cv, rev) == cv

(***************************************************************************)
(* The marking of cfmask and DSWE pixels, per pixel.                       *)
(***************************************************************************)
MarkCfmask_AnyClear(rev, cf) ==
  IF cf = CFMASK_FILL THEN 0
  ELSE IF rev = OUT_NOCLOUD THEN OUT_POSS_CLOUD ELSE rev

MarkCfmask_NoPossCloud(rev, cf) == IF cf = CFMASK_FILL THEN 0 ELSE rev

\* fill pixels are set to 0; clear pixels that cfmask flags are possibly cloud
MarkCfmask(rev, cf) ==
  LET r == IF cf = CFMASK_FILL THEN 0 ELSE rev
  IN IF r = OUT_NOCLOUD /\ cf = CFMASK_CLOUD THEN OUT_POSS_CLOUD ELSE r

MarkWater_KeepCloud(rev, dswe) ==
  IF dswe > 0 /\ dswe <= 3 /\ rev # OUT_CLOUD THEN OUT_WATER ELSE rev

\* DSWE values 1, 2, 3 are water
MarkWater(rev, dswe) == IF dswe > 0 /\ dswe <= 3 THEN OUT_WATER ELSE rev

\* the two loops over the pixels of the whole image
MarkCfmaskAll(rev, cf) ==
  [l \in 1..Len(rev) |->
     [s \in 1..Len(rev[1]) |-> MarkCfmask(rev[l][s], cf[l][s])]]

MarkWaterAll(rev, dswe) ==
  [l \in 1..Len(rev) |->
     [s \in 1..Len(rev[1]) |-> MarkWater(rev[l][s], dswe[l][s])]]

\* rule_based_model on one line: the revised code of every sample
RevisedLine(cfline, reflline, fill) ==
  [s \in 1..Len(cfline) |-> RevisedSample(cfline[s], reflline[s], fill)]

(***************************************************************************)
(* put_output_lines: seeks to line iline (0-based) of the band and writes  *)
(* nlines lines.  Lines are numbered from 1 here.                          *)
(***************************************************************************)
LinesWritten_OffByOne(iline, nlines) == iline..(iline + nlines - 1)

LinesWritten(iline, nlines) == (iline + 1)..(iline + nlines)

\* the write counts of the band after one more call
PutLines(w, iline, nlines) ==
  [l \in DOMAIN w |->
     IF l \in LinesWritten(iline, nlines) THEN w[l] + 1 ELSE w[l]]

(***************************************************************************)
(* buffer: every non-zero pixel of the input array is stamped on the       *)
(* output array through a diamond-shaped filter of size 2 * distance + 1.  *)
(* The arrays are one-dimensional, of nlines * nsamps pixels, from 0.      *)
(***************************************************************************)
FilterSize(dist) == 2 * dist + 1

\* "nfill = distance-fill_loc", fill_loc being abs (distance - line_filter)
NFill_Short(dist, line_filter) == dist - Abs(dist - line_filter) - 1

NFill(dist, line_filter) == dist - Abs(dist - line_filter)

\* the filter after the set-up loop, from the calloc'ed zeros
MakeFilter(dist) ==
  [filter_pix \in 0..(FilterSize(dist) * FilterSize(dist) - 1) |->
     LET line_filter == filter_pix \div FilterSize(dist)
         samp_filter == filter_pix % FilterSize(dist)
         nfill == NFill(dist, line_filter)
     IN  IF dist - nfill <= samp_filter /\ samp_filter <= dist + nfill
           THEN 1 ELSE 0]

HalfWindow(dist) == FilterSize(dist) \div 2

\* the two tests that skip the filter cells outside of the image
InsideImage_LinesOnly(l, s, nlines, nsamps) == ~(l < 0 \/ l >= nlines)

InsideImage(l, s, nlines, nsamps) ==
  /\ ~(l < 0 \/ l >= nlines)
  /\ ~(s < 0 \/ s >= nsamps)

\* the pixels of the output array that the window loops assign for the
\* input pixel at (l, s)
StampedPixels(l, s, dist, flt, nlines, nsamps) ==
  {(l + line_filter) * nsamps + (s + samp_filter) :
     <<line_filter, samp_filter>> \in
       {c \in ((-HalfWindow(dist))..HalfWindow(dist)) \X
              ((-HalfWindow(dist))..HalfWindow(dist)) :
          /\ InsideImage(l + c[1], s + c[2], nlines, nsamps)
          /\ flt[(c[1] + HalfWindow(dist)) * FilterSize(dist)
                 + (c[2] + HalfWindow(dist))] = 1}}

\* a stamp of the number of the input pixel in place of its value
Stamp_PixelNumber(buff, arr, p, dist, flt, nlines, nsamps) ==
  LET hit == StampedPixels(p \div nsamps, p % nsamps, dist, flt,
                           nlines, nsamps)
  IN  [q \in DOMAIN buff |-> IF q \in hit THEN p + 1 ELSE buff[q]]

\* "buff_array[buff_pix] = array[pix]" for every pixel under the filter
Stamp(buff, arr, p, dist, flt, nlines, nsamps) ==
  LET hit == StampedPixels(p \div nsamps, p % nsamps, dist, flt,
                           nlines, nsamps)
  IN  [q \in DOMAIN buff |-> IF q \in hit THEN arr[p] ELSE buff[q]]

(***************************************************************************)
(* variance: the variance of the 9x9 window around every pixel of a        *)
(* one-dimensional array of nlines * nsamps pixels.  A scale factor is a   *)
(* fraction num / den; the doubles are taken as exact.                     *)
(***************************************************************************)
WINDOW == 9
HALF_WINDOW == WINDOW \div 2
SQR_WINDOW == WINDOW * WINDOW
FLOAT_TO_INT == 10000

\* what the output array holds at the pixels that get no variance
DefaultVariance_Zero(fill) == 0

DefaultVariance(fill) == fill

\* "fabs (scale_factor - 1.0) < epsilon", epsilon being 0.00001
OutScale_One(scale) == 1

OutScale(scale) ==
  IF Abs(scale.num - scale.den) * 100000 < scale.den THEN 1 ELSE FLOAT_TO_INT

\* the pixel of the array that is number count of the window of (l, s)
WinPix(l, s, count, nsamps) ==
  (l + (count \div WINDOW) - HALF_WINDOW) * nsamps
    + (s - HALF_WINDOW) + (count % WINDOW)

\* skip_window after the first pass over the window
SkipWindow_Centre(arr, l, s, nsamps, fill) == arr[l * nsamps + s] = fill

SkipWindow(arr, l, s, nsamps, fill) ==
  \E count \in 0..(SQR_WINDOW - 1) : arr[WinPix(l, s, count, nsamps)] = fill

RECURSIVE SumOver(_, _, _)
\* the sum of f[a], ..., f[b]
SumOver(f, a, b) ==
  IF a > b THEN 0
  ELSE IF a = b THEN f[a]
  ELSE LET m == (a + b) \div 2
       IN  SumOver(f, a, m) + SumOver(f, m + 1, b)

\* SQR_WINDOW times the sum of the squares of the differences between the
\* unscaled values and their average, for the scale factor 1: with x the
\* values of the window, SQR_WINDOW * sum(x^2) - sum(x)^2
SqrDiffs(arr, l, s, nsamps) ==
  LET x == [count \in 0..(SQR_WINDOW - 1) |-> arr[WinPix(l, s, count, nsamps)]]
      sq == [count \in 0..(SQR_WINDOW - 1) |-> x[count] * x[count]]
      sum == SumOver(x, 0, SQR_WINDOW - 1)
  IN  SQR_WINDOW * SumOver(sq, 0, SQR_WINDOW - 1) - sum * sum

RECURSIVE GCD(_, _)
GCD(a, b) == IF b = 0 THEN a ELSE GCD(b, a % b)

\* "(int32) (var * out_scale + 0.5)": var is the sum of the squares of the
\* differences over SQR_WINDOW - 1, the values being multiplied by the scale
\* factor first; it is never negative
ScaledVariance(sqr_diffs, scale, out) ==
  LET g == GCD(scale.num * scale.num * out, scale.den * scale.den)
      fn == (scale.num * scale.num * out) \div g
      fd == (scale.den * scale.den) \div g
      half == (SQR_WINDOW * (SQR_WINDOW - 1)) \div 2
  IN  (((sqr_diffs * fn) \div fd) + half) \div (SQR_WINDOW * (SQR_WINDOW - 1))
(***************************************************************************)
(* Inputs.                                                                 *)
(***************************************************************************)
\* scaled reflectances of the six bands (int16), with zero and fill
B1Values == {559, 2600, 3741}
B2Values == {0, 1953}
B3Values == {812, 5436}
B4Values == {1135, 4201, -9999}
B5Values == {0, 1333, 3500}
B7Values == {0, 3000, 6222}

ReflSamples ==
  {<<v1, v2, v3, v4, v5, v7>> :
     v1 \in B1Values, v2 \in B2Values, v3 \in B3Values,
     v4 \in B4Values, v5 \in B5Values, v7 \in B7Values}

\* cfmask codes: clear, cloud, fill
CfmaskValues == {0, CFMASK_CLOUD, CFMASK_FILL}

\* the fill value of the reflectance bands, input->refl_fill, which
\* open_input takes from the metadata of the product
REFL_FILL == FILL_VALUE

\* number of samples of the line that one call of rule_based_model handles
LineLen == 2

\* make_index: band values (int16) and the fill value that is passed
BandValues == {-9999, -812, 0, 1, 812, 1135, 4201, 20000}
FillValues == {-9999, 0}

\* the scene of a whole run: nlines x nsamps pixels
NLines == 1
NSamps == 3

\* reflectances of a scene's pixels: one sample that every decision list
\* calls cloud free and one that every decision list calls cloud
ClearRefl == <<559, 0, 812, 1135, 0, 0>>
CloudRefl == <<3741, 1953, 5436, 4201, 3500, 3000>>
SceneRefl == {ClearRefl, CloudRefl}

\* DSWE codes: not water, water (1..3), and a code above the water codes;
\* a scene's DSWE band has one of them at every pixel
DsweValues == {0, 1, 3, 4}
DsweBands == {[l \in 1..NLines |-> [s \in 1..NSamps |-> v]] : v \in DsweValues}

\* arrays for buffer: zeros, a rectangle (possibly empty) of pixels of
\* value 1 and at most one pixel of value 2, line after line
BufLines == 3
BufSamps == 3
MaxDistance == 2

BufPixels == 0..(BufLines * BufSamps - 1)

BufArray(l1, l2, s1, s2, pl, ps) ==
  [p \in BufPixels |->
     LET l == p \div BufSamps
         s == p % BufSamps
     IN  IF l = pl /\ s = ps THEN 2
         ELSE IF l1 <= l /\ l <= l2 /\ s1 <= s /\ s <= s2 THEN 1
         ELSE 0]

BufArrays ==
  {BufArray(l1, l2, s1, s2, pl, ps) :
     l1 \in 0..(BufLines - 1), l2 \in (-1)..(BufLines - 1),
     s1 \in 0..(BufSamps - 1), s2 \in (-1)..(BufSamps - 1),
     pl \in (-1)..(BufLines - 1), ps \in (-1)..(BufSamps - 1)}

\* what the output array holds before the call
BufBefore == {[p \in BufPixels |-> 0], [p \in BufPixels |-> 1]}

\* arrays for variance: a background of one value, some columns of a
\* second value and at most one fill pixel, line after line
VarLines == 9
VarSamps == 10
VAR_FILL == FILL_VALUE
VarBackground == {0}
VarColumn == {300}

VarPixels == 0..(VarLines * VarSamps - 1)

VarArray(k0, k1, s1, s2, pl, ps) ==
  [p \in VarPixels |->
     LET l == p \div VarSamps
         s == p % VarSamps
     IN  IF l = pl /\ s = ps THEN VAR_FILL
         ELSE IF s1 <= s /\ s <= s2 THEN k1
         ELSE k0]

VarArrays ==
  {VarArray(k0, k1, s1, s2, pl, ps) :
     k0 \in VarBackground, k1 \in VarColumn,
     s1 \in 0..(VarSamps - 1), s2 \in (-1)..(VarSamps - 1),
     pl \in (-1)..(VarLines - 1), ps \in (-1)..(VarSamps - 1)}

\* the scale factors of the two runs: 1.0 and SCALE_FACTOR
ScaleOne == [num |-> 1, den |-> 1]
ScaleSmall == [num |-> 1, den |-> 10000]

\* samples of the earlier rule_based_model: the two index bands (int16,
\* times 10000) and the seven variance bands (int32) of a pixel, which are
\* all fill when the window of the pixel is not whole
ModeIndexes == {<<VAR_FILL, VAR_FILL>>, <<0, 0>>, <<1660, 10000>>}
FillVariances == [i \in 1..7 |-> VAR_FILL]
ModeVariances ==
  {FillVariances,
   [i \in 1..7 |-> 0],
   <<400000, 5000, 5000, 5000, 100000, 300, 300>>}

\* rasters for the erosion and dilation alone: a rectangle of flagged
\* pixels (possibly empty) and at most one further flagged pixel
OpenLines == 3
OpenSamps == 5

Raster(l1, l2, s1, s2, pl, ps) ==
  [l \in 1..OpenLines |->
     [s \in 1..OpenSamps |->
        IF \/ (l1 <= l /\ l <= l2 /\ s1 <= s /\ s <= s2)
           \/ (l = pl /\ s = ps)
          THEN OUT_CLOUD ELSE 0]]

OpenRasters ==
  {Raster(l1, l2, s1, s2, pl, ps) :
     l1 \in 1..OpenLines, l2 \in 0..OpenLines,
     s1 \in 1..OpenSamps, s2 \in 0..OpenSamps,
     pl \in 0..OpenLines, ps \in 0..OpenSamps}

(***************************************************************************)
(* State.                                                                  *)
(***************************************************************************)
VARIABLES
  \* one call of rule_based_model
  rpc,                \* where the call is
  samp,               \* the loop variable
  cfmask_buf,         \* input_img->cfmask_buf, the samples read so far
  px,                 \* b1..b7, ndvi, ndsi of the current sample
  mcode,              \* m1_cloud_code .. m5_cloud_code
  member,             \* the model run that is being evaluated
  ridx,               \* the next rule of that run
  limited_cloud_code,
  rev_cloud_mask,     \* the output line
  evaluated,          \* the samples for which the model runs were made
  \* one call of make_index
  ipc, band1, band2, fill_value, spec_indx,
  swap_indx,          \* the value of the call with the two bands exchanged
  \* main
  pc,                 \* where main is
  line,               \* the loop variable of the line loop
  in_cfmask,          \* the cfmask band of the input product
  in_refl,            \* the reflectance bands of the input product
  dswe_file_name,     \* "NULL" when the product has no DSWE band
  in_dswe,            \* the DSWE band of the input product, once it is read
  rev_cm,             \* the line buffer, later the buffer of the whole mask
  cv_img,             \* the OpenCV image
  out_file,           \* the REVISED_CM band of the output product
  cfmask_all,         \* refl_input->cfmask_buf for the whole image
  dswe_buf,           \* refl_input->dswe_buf for the whole image
  refined,            \* rev_cm as the erosion and dilation left it
  pass,               \* 2 when the erosion and dilation are applied again
  writes              \* per line of the output band, the number of
                      \* put_output_lines calls that wrote it

\* buffer
VARIABLES
  bpc,                \* where buffer is
  array,              \* the input array
  distance,           \* the distance to buffer
  buff_array,         \* the output array
  filter,             \* the filter, <<>> when not allocated
  pix                 \* the pixel of the input array the loops are at

rbmVars == <<rpc, samp, cfmask_buf, px, mcode, member, ridx,
             limited_cloud_code, rev_cloud_mask, evaluated>>
idxVars == <<ipc, band1, band2, fill_value, spec_indx, swap_indx>>
\* what open_input finds in the input product
product == <<in_cfmask, in_refl, dswe_file_name>>
mainVars == <<pc, line, product, in_dswe, rev_cm, cv_img, out_file,
              cfmask_all, dswe_buf, refined, pass, writes>>

\* variance
VARIABLES
  vpc,                \* where variance is
  var_array,          \* the input array
  scale_factor,       \* the scale factor of the input data
  out_scale,          \* the output scale factor
  var_fill,           \* the fill value of the band
  variance,           \* the output array
  var_line,           \* the line and the sample the loops are at
  var_samp,
  first_variance      \* the output array of the run with ScaleOne, once
                      \* the run with ScaleSmall has begun

varVars == <<vpc, var_array, scale_factor, out_scale, var_fill, variance,
             var_line, var_samp, first_variance>>

\* the earlier rule_based_model, on one sample
VARIABLES
  opc,                \* where it is
  old_cfmask,         \* cfmask_buf[samp]
  old_px,             \* the features of the sample
  conserv_cloud_code, \* the maximum of the conservative model runs
  old_limited_code,   \* the maximum of the limited model runs
  old_rev_mask,       \* rev_cloud_mask[samp]
  rev_lim_cloud_mask  \* rev_lim_cloud_mask[samp]

modeVars == <<opc, old_cfmask, old_px, conserv_cloud_code, old_limited_code,
              old_rev_mask, rev_lim_cloud_mask>>

bufVars == <<bpc, array, distance, buff_array, filter, pix>>

\* the input and output structures of input.h and output.c
VARIABLES
  this,               \* the Input_t: its flag, its files and its buffers
  cm_output,          \* the Output_t: its flag and its files
  call,               \* the last call on a structure and what it did
  ncalls              \* the number of calls so far

inVars == <<this, cm_output, call, ncalls>>

\* snow_cover_class and post_process_snow_cover_class
VARIABLES
  spc,                \* where it is
  sca_par,            \* the scale factors and the saturation value
  sca_in,             \* the input arrays: the bands and the QA mask
  sca_pix,            \* pix
  b_pix,              \* b1_pix .. b7_pix of the current pixel
  snow_mask,          \* the snow cover mask
  probability_score,
  tree_node,
  ndsi_array,
  ndvi_array,
  snow_entry          \* snow_mask as post_process_snow_cover_class got it

\* the loops of main that go through the lines some lines at a time
VARIABLES
  cpc,                \* where it is
  loop_nlines,        \* the number of lines of the raster
  proc_nlines,        \* PROC_NLINES
  loop_step,          \* what the loop adds to line: "PROC_NLINES" or "nlines_proc"
  loop_line,          \* line
  nlines_proc,
  chunks              \* the calls made so far: first line, number of lines

chunkVars == <<cpc, loop_nlines, proc_nlines, loop_step, loop_line,
               nlines_proc, chunks>>

scaVars == <<spc, sca_par, sca_in, sca_pix, b_pix, snow_mask,
             probability_score, tree_node, ndsi_array, ndvi_array,
             snow_entry>>

coreVars == <<rbmVars, idxVars, mainVars, bufVars, varVars, modeVars>>

extVars == <<inVars, scaVars, chunkVars>>

vars == <<rbmVars, idxVars, mainVars, bufVars, varVars, modeVars, extVars>>

NoFeatures == Features(<<0, 0, 0, 0, 0, 0>>, REFL_FILL)
NoCodes == [k \in Members |-> UNDECIDED]
NoImage == <<>>

\* the parts of the state that a run of another part leaves alone
RbmIdle ==
  /\ rpc = "idle"
  /\ samp = 0
  /\ cfmask_buf = <<>>
  /\ px = NoFeatures
  /\ mcode = NoCodes
  /\ member = 1
  /\ ridx = 1
  /\ limited_cloud_code = UNDECIDED
  /\ rev_cloud_mask = <<>>
  /\ evaluated = {}

IdxIdle ==
  /\ ipc = "idle"
  /\ band1 = 0
  /\ band2 = 0
  /\ fill_value = 0
  /\ spec_indx = IdxOfInt(0)
  /\ swap_indx = IdxOfInt(0)

MainIdle ==
  /\ pc = "idle"
  /\ line = 0
  /\ in_cfmask = NoImage
  /\ in_refl = NoImage
  /\ dswe_file_name = "NULL"
  /\ in_dswe = NoImage
  /\ rev_cm = NoImage
  /\ cv_img = NoImage
  /\ out_file = NoImage
  /\ cfmask_all = NoImage
  /\ dswe_buf = NoImage
  /\ refined = NoImage
  /\ writes = <<>>
  /\ pass = 1

BufIdle ==
  /\ bpc = "idle"
  /\ array = <<>>
  /\ distance = 0
  /\ buff_array = <<>>
  /\ filter = <<>>
  /\ pix = 0

VarIdle ==
  /\ vpc = "idle"
  /\ var_array = <<>>
  /\ scale_factor = ScaleOne
  /\ out_scale = 1
  /\ var_fill = VAR_FILL
  /\ variance = <<>>
  /\ var_line = 0
  /\ var_samp = 0
  /\ first_variance = <<>>

ModesIdle ==
  /\ opc = "idle"
  /\ old_cfmask = 0
  /\ old_px = <<>>
  /\ conserv_cloud_code = UNDECIDED
  /\ old_limited_code = UNDECIDED
  /\ old_rev_mask = 0
  /\ rev_lim_cloud_mask = 0

InIdle ==
  /\ this = <<>>
  /\ cm_output = <<>>
  /\ call = <<>>
  /\ ncalls = 0

ScaIdle ==
  /\ spc = "idle"
  /\ sca_par = <<>>
  /\ sca_in = <<>>
  /\ sca_pix = 0
  /\ b_pix = <<>>
  /\ snow_mask = <<>>
  /\ probability_score = <<>>
  /\ tree_node = <<>>
  /\ ndsi_array = <<>>
  /\ ndvi_array = <<>>
  /\ snow_entry = <<>>

ChunkIdle ==
  /\ cpc = "idle"
  /\ loop_nlines = 0
  /\ proc_nlines = 0
  /\ loop_step = "none"
  /\ loop_line = 0
  /\ nlines_proc = 0
  /\ chunks = <<>>

ExtIdle ==
  /\ InIdle
  /\ ScaIdle
  /\ ChunkIdle

CoreIdle ==
  /\ RbmIdle
  /\ IdxIdle
  /\ MainIdle
  /\ BufIdle
  /\ VarIdle
  /\ ModesIdle
(***************************************************************************)
(* rule_based_model, one line, rule by rule.                               *)
(***************************************************************************)
\* entry: "memset (rev_cloud_mask, 0, nsamps * sizeof (uint8))"
RbmInit ==
  /\ rpc = "loop"
  /\ samp = 0
  /\ cfmask_buf = <<>>
  /\ px = NoFeatures
  /\ mcode = NoCodes
  /\ member = 1
  /\ ridx = 1
  /\ limited_cloud_code = UNDECIDED
  /\ rev_cloud_mask = [i \in 1..LineLen |-> 0]
  /\ evaluated = {}
  /\ IdxIdle
  /\ MainIdle
  /\ BufIdle
  /\ VarIdle
  /\ ModesIdle
  /\ ExtIdle

\* a sample that is not cloud in cfmask: "continue"
RbmSkip ==
  /\ rpc = "loop"
  /\ samp < LineLen
  /\ \E cf \in CfmaskValues :
       /\ SkipsSample(cf)
       /\ cfmask_buf' = Append(cfmask_buf, cf)
  /\ samp' = samp + 1
  /\ UNCHANGED <<rpc, px, mcode, member, ridx, limited_cloud_code,
                 rev_cloud_mask, evaluated>>
  /\ UNCHANGED <<idxVars, mainVars, bufVars, varVars, modeVars, extVars>>

\* a cloud sample: the codes are set to -1 and the pixel values are set up
RbmStart ==
  /\ rpc = "loop"
  /\ samp < LineLen
  /\ \E cf \in CfmaskValues, refl \in ReflSamples :
       /\ ~SkipsSample(cf)
       /\ cfmask_buf' = Append(cfmask_buf, cf)
       /\ px' = Features(refl, REFL_FILL)
  /\ mcode' = NoCodes
  /\ member' = 1
  /\ ridx' = 1
  /\ evaluated' = evaluated \cup {samp}
  /\ rpc' = "rules"
  /\ UNCHANGED <<samp, limited_cloud_code, rev_cloud_mask>>
  /\ UNCHANGED <<idxVars, mainVars, bufVars, varVars, modeVars, extVars>>

\* one rule of the current model run
RbmRule ==
  /\ rpc = "rules"
  /\ ridx <= Len(MemberRules(member))
  /\ mcode' = [mcode EXCEPT
                 ![member] = RuleStep(@, MemberRules(member)[ridx], px)]
  /\ ridx' = ridx + 1
  /\ UNCHANGED <<rpc, samp, cfmask_buf, px, member, limited_cloud_code,
                 rev_cloud_mask, evaluated>>
  /\ UNCHANGED <<idxVars, mainVars, bufVars, varVars, modeVars, extVars>>

\* the default of the current model run, after its last rule
RbmDefault ==
  /\ rpc = "rules"
  /\ ridx > Len(MemberRules(member))
  /\ mcode' = [mcode EXCEPT ![member] = DefaultStep(@, member)]
  /\ IF member < NumMembers
       THEN member' = member + 1 /\ ridx' = 1 /\ rpc' = rpc
       ELSE member' = member /\ ridx' = ridx /\ rpc' = "vote"
  /\ UNCHANGED <<samp, cfmask_buf, px, limited_cloud_code, rev_cloud_mask,
                 evaluated>>
  /\ UNCHANGED <<idxVars, mainVars, bufVars, varVars, modeVars, extVars>>

\* the maximum of the five codes, and the revised code of the sample
RbmVote ==
  /\ rpc = "vote"
  /\ limited_cloud_code' = LimitedCloudCode(mcode)
  /\ rev_cloud_mask' =
       [rev_cloud_mask EXCEPT ![samp + 1] = RevisedCode(LimitedCloudCode(mcode))]
  /\ rpc' = "voted"
  /\ UNCHANGED <<samp, cfmask_buf, px, mcode, member, ridx, evaluated>>
  /\ UNCHANGED <<idxVars, mainVars, bufVars, varVars, modeVars, extVars>>

\* the end of the loop body: the next sample.  The locals are dead here
\* (each is assigned before it is read again) and are put back to their
\* entry values.
RbmNextSample ==
  /\ rpc = "voted"
  /\ samp' = samp + 1
  /\ px' = NoFeatures
  /\ mcode' = NoCodes
  /\ member' = 1
  /\ ridx' = 1
  /\ limited_cloud_code' = UNDECIDED
  /\ rpc' = "loop"
  /\ UNCHANGED <<cfmask_buf, rev_cloud_mask, evaluated>>
  /\ UNCHANGED <<idxVars, mainVars, bufVars, varVars, modeVars, extVars>>

\* "samp < nsamps" fails: the call returns
RbmReturn ==
  /\ rpc = "loop"
  /\ samp = LineLen
  /\ rpc' = "done"
  /\ UNCHANGED <<samp, cfmask_buf, px, mcode, member, ridx,
                 limited_cloud_code, rev_cloud_mask, evaluated>>
  /\ UNCHANGED <<idxVars, mainVars, bufVars, varVars, modeVars, extVars>>

RbmNext ==
  \/ RbmSkip
  \/ RbmStart
  \/ RbmRule
  \/ RbmDefault
  \/ RbmVote
  \/ RbmNextSample
  \/ RbmReturn

SpecRBM == RbmInit /\ [][RbmNext]_vars

(***************************************************************************)
(* make_index, one call.                                                   *)
(***************************************************************************)
IdxInit ==
  /\ ipc = "call"
  /\ band1 \in BandValues
  /\ band2 \in BandValues
  /\ fill_value \in FillValues
  /\ spec_indx = IdxOfInt(0)
  /\ swap_indx = IdxOfInt(0)
  /\ RbmIdle
  /\ MainIdle
  /\ BufIdle
  /\ VarIdle
  /\ ModesIdle
  /\ ExtIdle

\* "if (band1 == fill_value || band2 == fill_value)": the index is fill
IdxFill ==
  /\ ipc = "call"
  /\ IsFillPair(band1, band2, fill_value)
  /\ spec_indx' = make_index(band1, band2, fill_value)
  /\ ipc' = "done"
  /\ UNCHANGED <<band1, band2, fill_value, swap_indx>>
  /\ UNCHANGED <<rbmVars, mainVars, bufVars, varVars, modeVars, extVars>>

\* else: the band ratio, kept between -1.0 and 1.0
IdxRatio ==
  /\ ipc = "call"
  /\ ~IsFillPair(band1, band2, fill_value)
  /\ spec_indx' = make_index(band1, band2, fill_value)
  /\ ipc' = "done"
  /\ UNCHANGED <<band1, band2, fill_value, swap_indx>>
  /\ UNCHANGED <<rbmVars, mainVars, bufVars, varVars, modeVars, extVars>>

\* a second call, with the two bands exchanged
IdxSwapped ==
  /\ ipc = "done"
  /\ swap_indx' = make_index(band2, band1, fill_value)
  /\ ipc' = "both"
  /\ UNCHANGED <<band1, band2, fill_value, spec_indx>>
  /\ UNCHANGED <<rbmVars, mainVars, bufVars, varVars, modeVars, extVars>>

IdxNext ==
  \/ IdxFill
  \/ IdxRatio
  \/ IdxSwapped

SpecIndex == IdxInit /\ [][IdxNext]_vars

(***************************************************************************)
(* main: the line loop, the erosion and dilation, the marking.             *)
(***************************************************************************)
\* a pixel of a scene: its cfmask code and its reflectances.
\* rule_based_model reads the reflectances of cloud samples only, so the
\* other pixels all get the same reflectances.
PixelKinds ==
  {k \in CfmaskValues \X SceneRefl : k[1] # CFMASK_CLOUD => k[2] = ClearRefl}

\* a scene: a background of one kind of pixel, a rectangle (possibly empty)
\* of a second kind and at most one pixel of a third kind
SceneOf(k0, k1, k2, l1, l2, s1, s2, pl, ps) ==
  [l \in 1..NLines |->
     [s \in 1..NSamps |->
        IF l = pl /\ s = ps THEN k2
        ELSE IF l1 <= l /\ l <= l2 /\ s1 <= s /\ s <= s2 THEN k1
        ELSE k0]]

Scenes ==
  {SceneOf(k0, k1, k2, l1, l2, s1, s2, pl, ps) :
     k0 \in PixelKinds, k1 \in PixelKinds, k2 \in PixelKinds,
     l1 \in 1..NLines, l2 \in 0..NLines,
     s1 \in 1..NSamps, s2 \in 0..NSamps,
     pl \in 0..NLines, ps \in 0..NSamps}

\* after open_input, open_output and the calloc of the line buffer
Init ==
  /\ pc = "lines"
  /\ line = 0
  /\ \E sc \in Scenes :
       /\ in_cfmask = [l \in 1..NLines |-> [s \in 1..NSamps |-> sc[l][s][1]]]
       /\ in_refl = [l \in 1..NLines |-> [s \in 1..NSamps |-> sc[l][s][2]]]
  /\ dswe_file_name \in {"NULL", "dswe_psccss"}
  /\ in_dswe = NoImage
  /\ rev_cm = [s \in 1..NSamps |-> 0]
  /\ cv_img = NoImage
  /\ out_file = NoImage
  /\ cfmask_all = NoImage
  /\ dswe_buf = NoImage
  /\ refined = NoImage
  /\ pass = 1
  /\ writes = [l \in 1..NLines |-> 0]
  /\ RbmIdle
  /\ IdxIdle
  /\ BufIdle
  /\ VarIdle
  /\ ModesIdle
  /\ ExtIdle

\* one pass of the line loop: the line is read, rule_based_model fills the
\* line buffer, the line buffer is written to the output band
MainModelLine ==
  /\ pc = "lines"
  /\ line < NLines
  /\ rev_cm' = RevisedLine(in_cfmask[line + 1], in_refl[line + 1], REFL_FILL)
  /\ out_file' = Append(out_file, rev_cm')
  /\ writes' = PutLines(writes, line, 1)
  /\ line' = line + 1
  /\ UNCHANGED <<pc, product, in_dswe, cv_img, cfmask_all,
                 dswe_buf, refined, pass>>
  /\ UNCHANGED <<rbmVars, idxVars, bufVars, varVars, modeVars, extVars>>

\* a read of the line or the write of the line buffer fails: "exit (ERROR)"
MainLineFails ==
  /\ pc = "lines"
  /\ line < NLines
  /\ pc' = "error"
  /\ UNCHANGED <<writes, line, product, in_dswe, rev_cm, cv_img,
                 out_file, cfmask_all, dswe_buf, refined, pass>>
  /\ UNCHANGED <<rbmVars, idxVars, bufVars, varVars, modeVars, extVars>>

\* after the loop: the input is closed, the whole mask is read back from
\* the output band and copied into the OpenCV image
MainLoad ==
  /\ pc = "lines"
  /\ line = NLines
  /\ rev_cm' = out_file
  /\ cv_img' = out_file
  /\ pc' = "loaded"
  /\ UNCHANGED <<writes, line, product, in_dswe, out_file,
                 cfmask_all, dswe_buf, refined, pass>>
  /\ UNCHANGED <<rbmVars, idxVars, bufVars, varVars, modeVars, extVars>>

\* "cvErode (cv_img, cv_img, element, 1)"
MainErode ==
  /\ pc = "loaded"
  /\ cv_img' = cvErode(cv_img)
  /\ pc' = "eroded"
  /\ UNCHANGED <<writes, line, product, in_dswe, rev_cm, out_file,
                 cfmask_all, dswe_buf, refined, pass>>
  /\ UNCHANGED <<rbmVars, idxVars, bufVars, varVars, modeVars, extVars>>

\* "cvDilate (cv_img, cv_img, element, 1)"
MainDilate ==
  /\ pc = "eroded"
  /\ cv_img' = cvDilate(DilateSource(cv_img, rev_cm))
  /\ pc' = "dilated"
  /\ UNCHANGED <<writes, line, product, in_dswe, rev_cm, out_file,
                 cfmask_all, dswe_buf, refined, pass>>
  /\ UNCHANGED <<rbmVars, idxVars, bufVars, varVars, modeVars, extVars>>

\* the OpenCV image is copied back into rev_cm and released
MainCopyBack ==
  /\ pc = "dilated"
  /\ rev_cm' = cv_img
  /\ refined' = cv_img
  /\ cv_img' = NoImage
  /\ pc' = "opened"
  /\ UNCHANGED <<writes, line, product, in_dswe, out_file,
                 cfmask_all, dswe_buf, pass>>
  /\ UNCHANGED <<rbmVars, idxVars, bufVars, varVars, modeVars, extVars>>

\* open_cfmask_dswe and the two reads of the whole image.  The DSWE band
\* is opened whether or not the product has one.
MainReadMasks ==
  /\ pc = "opened"
  /\ dswe_file_name # "NULL"
  /\ cfmask_all' = in_cfmask
  /\ in_dswe' \in DsweBands
  /\ dswe_buf' = in_dswe'
  /\ pc' = "read"
  /\ UNCHANGED <<writes, line, product, rev_cm, cv_img,
                 out_file, refined, pass>>
  /\ UNCHANGED <<rbmVars, idxVars, bufVars, varVars, modeVars, extVars>>

\* without a DSWE band open_raw_binary gets a NULL file name: it returns
\* NULL, open_cfmask_dswe returns false and main exits with ERROR ...
MainOpenFails ==
  /\ pc = "opened"
  /\ dswe_file_name = "NULL"
  /\ pc' = "error"
  /\ UNCHANGED <<writes, line, product, in_dswe, rev_cm, cv_img,
                 out_file, cfmask_all, dswe_buf, refined, pass>>
  /\ UNCHANGED <<rbmVars, idxVars, bufVars, varVars, modeVars, extVars>>

\* ... or the C library faults on the NULL name
MainOpenFaults ==
  /\ pc = "opened"
  /\ dswe_file_name = "NULL"
  /\ pc' = "fault"
  /\ UNCHANGED <<writes, line, product, in_dswe, rev_cm, cv_img,
                 out_file, cfmask_all, dswe_buf, refined, pass>>
  /\ UNCHANGED <<rbmVars, idxVars, bufVars, varVars, modeVars, extVars>>

\* the first marking loop: fill pixels, then cfmask cloud pixels
MainMarkCfmask ==
  /\ pc = "read"
  /\ rev_cm' = MarkCfmaskAll(rev_cm, cfmask_all)
  /\ pc' = "marked"
  /\ UNCHANGED <<writes, line, product, in_dswe, cv_img, out_file,
                 cfmask_all, dswe_buf, refined, pass>>
  /\ UNCHANGED <<rbmVars, idxVars, bufVars, varVars, modeVars, extVars>>

\* the second marking loop: DSWE water pixels, "if (dswe_file_name)"
MainMarkWater ==
  /\ pc = "marked"
  /\ rev_cm' = IF dswe_file_name # "NULL"
                 THEN MarkWaterAll(rev_cm, dswe_buf)
                 ELSE rev_cm
  /\ pc' = "watered"
  /\ UNCHANGED <<writes, line, product, in_dswe, cv_img, out_file,
                 cfmask_all, dswe_buf, refined, pass>>
  /\ UNCHANGED <<rbmVars, idxVars, bufVars, varVars, modeVars, extVars>>

\* the whole mask is written to the output band; the buffers are freed
MainWrite ==
  /\ pc = "watered"
  /\ out_file' = rev_cm
  /\ writes' = PutLines(writes, 0, Len(writes))
  /\ rev_cm' = NoImage
  /\ cfmask_all' = NoImage
  /\ dswe_buf' = NoImage
  /\ pc' = "done"
  /\ UNCHANGED <<line, product, in_dswe, cv_img, refined, pass>>
  /\ UNCHANGED <<rbmVars, idxVars, bufVars, varVars, modeVars, extVars>>

Next ==
  \/ MainModelLine
  \/ MainLineFails
  \/ MainLoad
  \/ MainErode
  \/ MainDilate
  \/ MainCopyBack
  \/ MainReadMasks
  \/ MainOpenFails
  \/ MainOpenFaults
  \/ MainMarkCfmask
  \/ MainMarkWater
  \/ MainWrite

Spec == Init /\ [][Next]_vars

(***************************************************************************)
(* The erosion and dilation of main on their own, applied to a raster and  *)
(* then once more to the result.                                           *)
(***************************************************************************)
OpenInit ==
  /\ pc = "loaded"
  /\ line = 0
  /\ in_cfmask = NoImage
  /\ in_refl = NoImage
  /\ dswe_file_name = "NULL"
  /\ in_dswe = NoImage
  /\ rev_cm \in OpenRasters
  /\ cv_img = rev_cm
  /\ out_file = rev_cm
  /\ cfmask_all = NoImage
  /\ dswe_buf = NoImage
  /\ refined = NoImage
  /\ pass = 1
  /\ writes = [l \in 1..OpenLines |-> 1]
  /\ RbmIdle
  /\ IdxIdle
  /\ BufIdle
  /\ VarIdle
  /\ ModesIdle
  /\ ExtIdle

\* the result is put through the same step again: rev_cm is copied into a
\* new OpenCV image
OpenAgain ==
  /\ pc = "opened"
  /\ pass = 1
  /\ cv_img' = rev_cm
  /\ pass' = 2
  /\ pc' = "loaded"
  /\ UNCHANGED <<writes, line, product, in_dswe, rev_cm, out_file,
                 cfmask_all, dswe_buf, refined>>
  /\ UNCHANGED <<rbmVars, idxVars, bufVars, varVars, modeVars, extVars>>

OpenNext ==
  \/ MainErode
  \/ MainDilate
  \/ MainCopyBack
  \/ OpenAgain

SpecOpen == OpenInit /\ [][OpenNext]_vars


(***************************************************************************)
(* buffer, one input pixel at a time.                                      *)
(***************************************************************************)
BufInit ==
  /\ bpc = "start"
  /\ array \in BufArrays
  /\ distance \in 0..MaxDistance
  /\ buff_array \in BufBefore
  /\ filter = <<>>
  /\ pix = 0
  /\ RbmIdle
  /\ IdxIdle
  /\ MainIdle
  /\ VarIdle
  /\ ModesIdle
  /\ ExtIdle

\* the filter is allocated and set up, the output array is set to zeros
BufSetUp ==
  /\ bpc = "start"
  /\ filter' = MakeFilter(distance)
  /\ buff_array' = [p \in DOMAIN buff_array |-> 0]
  /\ pix' = 0
  /\ bpc' = "scan"
  /\ UNCHANGED <<array, distance>>
  /\ UNCHANGED <<rbmVars, idxVars, mainVars, varVars, modeVars, extVars>>

\* "if (array[pix] == 0) continue"
BufSkip ==
  /\ bpc = "scan"
  /\ pix < BufLines * BufSamps
  /\ array[pix] = 0
  /\ pix' = pix + 1
  /\ UNCHANGED <<bpc, array, distance, buff_array, filter>>
  /\ UNCHANGED <<rbmVars, idxVars, mainVars, varVars, modeVars, extVars>>

\* the window loops for a non-zero pixel
BufStamp ==
  /\ bpc = "scan"
  /\ pix < BufLines * BufSamps
  /\ array[pix] # 0
  /\ buff_array' = Stamp(buff_array, array, pix, distance, filter,
                         BufLines, BufSamps)
  /\ pix' = pix + 1
  /\ UNCHANGED <<bpc, array, distance, filter>>
  /\ UNCHANGED <<rbmVars, idxVars, mainVars, varVars, modeVars, extVars>>

\* the filter is freed, "return (SUCCESS)"
BufReturn ==
  /\ bpc = "scan"
  /\ pix = BufLines * BufSamps
  /\ filter' = <<>>
  /\ bpc' = "done"
  /\ UNCHANGED <<array, distance, buff_array, pix>>
  /\ UNCHANGED <<rbmVars, idxVars, mainVars, varVars, modeVars, extVars>>

BufNext ==
  \/ BufSetUp
  \/ BufSkip
  \/ BufStamp
  \/ BufReturn

SpecBuffer == BufInit /\ [][BufNext]_vars

(***************************************************************************)
(* variance, one pixel at a time, run on an array with the scale factor    *)
(* 1.0 and then on the same array with SCALE_FACTOR.                       *)
(***************************************************************************)
VarInit ==
  /\ vpc = "start"
  /\ var_array \in VarArrays
  /\ scale_factor = ScaleOne
  /\ out_scale = 1
  /\ var_fill = VAR_FILL
  /\ variance = [p \in VarPixels |-> 0]
  /\ var_line = 0
  /\ var_samp = 0
  /\ first_variance = <<>>
  /\ RbmIdle
  /\ IdxIdle
  /\ MainIdle
  /\ BufIdle
  /\ ModesIdle
  /\ ExtIdle

\* the output array is set to fill, the output scale is chosen
VarFill ==
  /\ vpc = "start"
  /\ variance' = [p \in DOMAIN variance |-> DefaultVariance(var_fill)]
  /\ out_scale' = OutScale(scale_factor)
  /\ var_line' = HALF_WINDOW
  /\ var_samp' = HALF_WINDOW
  /\ vpc' = "scan"
  /\ UNCHANGED <<var_array, scale_factor, var_fill, first_variance>>
  /\ UNCHANGED <<rbmVars, idxVars, mainVars, bufVars, modeVars, extVars>>

\* "samp++", and "line++" at the end of the line
VarAdvance ==
  IF var_samp + 1 < VarSamps - HALF_WINDOW
    THEN var_samp' = var_samp + 1 /\ var_line' = var_line
    ELSE var_samp' = HALF_WINDOW /\ var_line' = var_line + 1

\* a window with a fill pixel: "continue"
VarSkip ==
  /\ vpc = "scan"
  /\ var_line < VarLines - HALF_WINDOW
  /\ var_samp < VarSamps - HALF_WINDOW
  /\ SkipWindow(var_array, var_line, var_samp, VarSamps, var_fill)
  /\ VarAdvance
  /\ UNCHANGED <<vpc, var_array, scale_factor, out_scale, var_fill,
                 variance, first_variance>>
  /\ UNCHANGED <<rbmVars, idxVars, mainVars, bufVars, modeVars, extVars>>

\* a window without fill: the variance is computed and assigned
VarAssign ==
  /\ vpc = "scan"
  /\ var_line < VarLines - HALF_WINDOW
  /\ var_samp < VarSamps - HALF_WINDOW
  /\ ~SkipWindow(var_array, var_line, var_samp, VarSamps, var_fill)
  /\ variance' =
       [variance EXCEPT ![var_line * VarSamps + var_samp] =
          ScaledVariance(SqrDiffs(var_array, var_line, var_samp, VarSamps),
                         scale_factor, out_scale)]
  /\ VarAdvance
  /\ UNCHANGED <<vpc, var_array, scale_factor, out_scale, var_fill,
                 first_variance>>
  /\ UNCHANGED <<rbmVars, idxVars, mainVars, bufVars, modeVars, extVars>>

\* the end of the loops
VarReturn ==
  /\ vpc = "scan"
  /\ \/ var_line >= VarLines - HALF_WINDOW
     \/ var_samp >= VarSamps - HALF_WINDOW
  /\ vpc' = "done"
  /\ UNCHANGED <<var_array, scale_factor, out_scale, var_fill, variance,
                 var_line, var_samp, first_variance>>
  /\ UNCHANGED <<rbmVars, idxVars, mainVars, bufVars, modeVars, extVars>>

\* the second run, on the same array
VarAgain ==
  /\ vpc = "done"
  /\ scale_factor = ScaleOne
  /\ first_variance' = variance
  /\ scale_factor' = ScaleSmall
  /\ vpc' = "start"
  /\ UNCHANGED <<var_array, out_scale, var_fill, variance, var_line,
                 var_samp>>
  /\ UNCHANGED <<rbmVars, idxVars, mainVars, bufVars, modeVars, extVars>>

VarNext ==
  \/ VarFill
  \/ VarSkip
  \/ VarAssign
  \/ VarReturn
  \/ VarAgain

SpecVariance == VarInit /\ [][VarNext]_vars

(***************************************************************************)
(* The earlier rule_based_model on one sample: the conservative model      *)
(* runs, the limited model runs, the two revised masks.                    *)
(***************************************************************************)
\* after the two memsets
ModesInit ==
  /\ opc = "start"
  /\ old_cfmask \in {0, CFMASK_CLOUD}
  /\ \E refl \in ReflSamples, nd \in ModeIndexes, v \in ModeVariances :
       old_px = EarlierFeatures(refl, nd, v)
  /\ conserv_cloud_code = UNDECIDED
  /\ old_limited_code = UNDECIDED
  /\ old_rev_mask = 0
  /\ rev_lim_cloud_mask = 0
  /\ RbmIdle
  /\ IdxIdle
  /\ MainIdle
  /\ BufIdle
  /\ VarIdle
  /\ ExtIdle

\* "if (input_img->cfmask_buf[samp] != 4) continue"
ModesSkip ==
  /\ opc = "start"
  /\ old_cfmask # 4
  /\ opc' = "done"
  /\ UNCHANGED <<old_cfmask, old_px, conserv_cloud_code, old_limited_code,
                 old_rev_mask, rev_lim_cloud_mask>>
  /\ UNCHANGED <<rbmVars, idxVars, mainVars, bufVars, varVars, extVars>>

\* the five conservative model runs and their maximum
ModesConserv ==
  /\ opc = "start"
  /\ old_cfmask = 4
  /\ conserv_cloud_code' = ConservCloudCode(old_px)
  /\ opc' = "conserv"
  /\ UNCHANGED <<old_cfmask, old_px, old_limited_code, old_rev_mask,
                 rev_lim_cloud_mask>>
  /\ UNCHANGED <<rbmVars, idxVars, mainVars, bufVars, varVars, extVars>>

\* the five limited model runs and their maximum
ModesLimited ==
  /\ opc = "conserv"
  /\ old_limited_code' = EarlierLimitedCode(old_px)
  /\ opc' = "limited"
  /\ UNCHANGED <<old_cfmask, old_px, conserv_cloud_code, old_rev_mask,
                 rev_lim_cloud_mask>>
  /\ UNCHANGED <<rbmVars, idxVars, mainVars, bufVars, varVars, extVars>>

\* the two revised cloud codes of the sample
ModesRevise ==
  /\ opc = "limited"
  /\ old_rev_mask' = EarlierRevisedCode(conserv_cloud_code)
  /\ rev_lim_cloud_mask' = EarlierRevisedCode(old_limited_code)
  /\ opc' = "done"
  /\ UNCHANGED <<old_cfmask, old_px, conserv_cloud_code, old_limited_code>>
  /\ UNCHANGED <<rbmVars, idxVars, mainVars, bufVars, varVars, extVars>>

ModesNext ==
  \/ ModesSkip
  \/ ModesConserv
  \/ ModesLimited
  \/ ModesRevise

SpecModes == ModesInit /\ [][ModesNext]_vars

(***************************************************************************)
(* The input and the output structure: the calls of input.h and output.c   *)
(* in any order.  A file pointer is "NULL", "open" or "closed" (it points  *)
(* to a file that fclose has released); a heap pointer is "NULL", "alloc"  *)
(* or "freed".  close_raw_binary is fclose, read_raw_binary is fread and   *)
(* write_raw_binary is fwrite, each returning ERROR on a short count.      *)
(* A call of the C library on a pointer that is not valid has no defined   *)
(* behaviour: the model takes each of its outcomes, a fault included.      *)
(***************************************************************************)
InNLines == 2     \* this->nlines
InNBand == 2      \* this->nrefl_band
OutNBand == 2     \* this->nband of the output structure
MaxCalls == 4     \* the length of the call sequences

\* fclose
CloseRaw(fp) == IF fp = "open" THEN "closed" ELSE fp

\* free
FreeMem(p) == IF p = "alloc" THEN "freed" ELSE p

\* the structure before open_input
NullInput ==
  [null |-> TRUE, refl_open |-> FALSE,
   fp_bin |-> "NULL", fp_cfmask |-> "NULL", fp_dswe |-> "NULL",
   file_name |-> "NULL", cfmask_file_name |-> "NULL",
   dswe_file_name |-> "NULL",
   refl_buf |-> "NULL", cfmask_buf |-> "NULL", dswe_buf |-> "NULL"]

\* the structure that open_input returns: the reflectance bands and cfmask
\* are open, the DSWE file is not; the DSWE name is set when the XML file
\* has the band
OpenedInput(has_dswe) ==
  [null |-> FALSE, refl_open |-> TRUE,
   fp_bin |-> "open", fp_cfmask |-> "open", fp_dswe |-> "NULL",
   file_name |-> "alloc", cfmask_file_name |-> "alloc",
   dswe_file_name |-> IF has_dswe THEN "alloc" ELSE "NULL",
   refl_buf |-> "alloc", cfmask_buf |-> "alloc", dswe_buf |-> "NULL"]

CloseInput(s) ==
  IF s.refl_open
    THEN [s EXCEPT !.fp_bin = CloseRaw(@), !.fp_cfmask = CloseRaw(@),
                   !.refl_open = FALSE]
    ELSE s

\* close_input calls fclose on a pointer that is not an open file
CloseInputMisuse(s) ==
  s.refl_open /\ (s.fp_bin # "open" \/ s.fp_cfmask # "open")

FreeInput(s) ==
  [s EXCEPT !.file_name = FreeMem(@), !.refl_buf = FreeMem(@),
            !.cfmask_buf = FreeMem(@)]

\* free_input calls free on a pointer that free has released before
FreeInputMisuse(s) ==
  "freed" \in {s.file_name, s.refl_buf, s.cfmask_buf}

CloseCfmaskDswe(s) ==
  IF s.refl_open
    THEN [s EXCEPT !.fp_cfmask = CloseRaw(@), !.fp_dswe = CloseRaw(@),
                   !.refl_open = FALSE]
    ELSE s

CloseCfmaskDsweMisuse(s) ==
  s.refl_open /\ (s.fp_cfmask # "open" \/ s.fp_dswe # "open")

FreeCfmaskDswe(s) ==
  [s EXCEPT !.cfmask_file_name = FreeMem(@), !.dswe_file_name = FreeMem(@),
            !.cfmask_buf = FreeMem(@), !.dswe_buf = FreeMem(@)]

FreeCfmaskDsweMisuse(s) ==
  "freed" \in {s.cfmask_file_name, s.dswe_file_name, s.cfmask_buf, s.dswe_buf}

\* whether open_raw_binary can open the file of this name: a NULL name
\* never opens, a name that was freed may or may not
CanOpen(name) == IF name = "NULL" THEN {FALSE} ELSE BOOLEAN

\* open_cfmask_dswe: the structure it leaves, its return value, and whether
\* it called fclose or free on a pointer that is not valid.  cf_ok and
\* ds_ok say whether the two files open, b1_ok and b2_ok whether the two
\* calloc calls succeed.
OpenCfmaskDswe(s, cf_ok, b1_ok, ds_ok, b2_ok) ==
  LET s0 == [s EXCEPT !.fp_cfmask = "NULL", !.cfmask_buf = "NULL",
                      !.fp_dswe = "NULL", !.dswe_buf = "NULL"]
      s1 == [s0 EXCEPT !.fp_cfmask = "open", !.refl_open = TRUE]
      s2 == [s1 EXCEPT !.cfmask_buf = "alloc"]
      s3 == [s2 EXCEPT !.fp_dswe = "open"]
      s4 == [s3 EXCEPT !.dswe_buf = "alloc"]
      Undo(t) == [st |-> FreeCfmaskDswe(CloseCfmaskDswe(t)), ret |-> FALSE,
                  misuse |-> CloseCfmaskDsweMisuse(t)
                               \/ FreeCfmaskDsweMisuse(CloseCfmaskDswe(t))]
  IN IF ~cf_ok THEN [st |-> s0, ret |-> FALSE, misuse |-> FALSE]
     ELSE IF ~b1_ok THEN Undo(s1)
     ELSE IF ~ds_ok THEN [st |-> s2, ret |-> FALSE, misuse |-> FALSE]
     ELSE IF ~b2_ok THEN Undo(s3)
     ELSE [st |-> s4, ret |-> TRUE, misuse |-> FALSE]

\* "nlines < 0 || iline+nlines > this->nlines" of put_output_lines
PastEnd(iline, nlines, img_nlines) ==
  nlines < 0 \/ iline + nlines > img_nlines

\* "iline < 0 || iline >= this->nlines"
BadLine(iline, img_nlines) == iline < 0 \/ iline >= img_nlines

\* "iband < 0 || iband >= this->nband"
BadBand(iband, nband) == iband < 0 \/ iband >= nband

\* the line range [iline, iline + nlines) lies inside the raster
InsideRaster(iline, nlines, img_nlines) ==
  iline >= 0 /\ nlines >= 0 /\ iline + nlines <= img_nlines

\* fseek and read_raw_binary or write_raw_binary on the file pointer fp:
\* the return values that the accessor can get.  A short count is ERROR.
Transfer(fp, iline, nlines, img_nlines) ==
  IF fp # "open" THEN {"SUCCESS", "ERROR", "fault"}
  ELSE IF InsideRaster(iline, nlines, img_nlines) THEN {"SUCCESS"}
  ELSE {"ERROR"}

\* the record of a line accessor that returned at one of its checks
Rejected(op, fp, band_ok, inside) ==
  [op |-> op, ret |-> "ERROR", io |-> FALSE, file_open |-> fp = "open",
   band_ok |-> band_ok, inside |-> inside, misuse |-> FALSE]

\* the records of a line accessor that got to its fseek
Transferred(op, fp, band_ok, iline, nlines, img_nlines) ==
  {[op |-> op, ret |-> r, io |-> TRUE, file_open |-> fp = "open",
    band_ok |-> band_ok,
    inside |-> InsideRaster(iline, nlines, img_nlines),
    misuse |-> fp # "open"] :
     r \in Transfer(fp, iline, nlines, img_nlines)}

\* the record of a call that is not a line accessor
Lifecycle(op, ret, misuse) ==
  [op |-> op, ret |-> ret, io |-> FALSE, file_open |-> FALSE,
   band_ok |-> TRUE, inside |-> TRUE, misuse |-> misuse]

\* what a library call on a pointer that is not valid can do to the caller
Returns(ret, misuse) == IF misuse THEN {ret, "fault"} ELSE {ret}

ArgBands(nband) == {-1, 0, nband}
ArgLines == -1..InNLines
ArgNLines == -1..(InNLines + 1)

Running == ncalls < MaxCalls /\ call.ret # "fault"

InInit ==
  /\ this = NullInput
  /\ cm_output = [open |-> TRUE, fp_bin |-> "open"]
  /\ call = Lifecycle("open_output", "SUCCESS", FALSE)
  /\ ncalls = 0
  /\ CoreIdle
  /\ ScaIdle
  /\ ChunkIdle

\* open_input: it returns the opened structure, or NULL
InOpenInput ==
  /\ Running
  /\ this.null
  /\ \E ok \in BOOLEAN, has_dswe \in BOOLEAN :
       IF ok
         THEN /\ this' = OpenedInput(has_dswe)
              /\ call' = Lifecycle("open_input", "SUCCESS", FALSE)
         ELSE /\ this' = this
              /\ call' = Lifecycle("open_input", "NULL", FALSE)
  /\ ncalls' = ncalls + 1
  /\ UNCHANGED <<cm_output, coreVars, scaVars, chunkVars>>

InCloseInput ==
  /\ Running
  /\ ~this.null
  /\ this' = CloseInput(this)
  /\ call' \in {Lifecycle("close_input", r, CloseInputMisuse(this)) :
                  r \in Returns("void", CloseInputMisuse(this))}
  /\ ncalls' = ncalls + 1
  /\ UNCHANGED <<cm_output, coreVars, scaVars, chunkVars>>

InFreeInput ==
  /\ Running
  /\ ~this.null
  /\ this' = FreeInput(this)
  /\ call' \in {Lifecycle("free_input", r, FreeInputMisuse(this)) :
                  r \in Returns("void", FreeInputMisuse(this))}
  /\ ncalls' = ncalls + 1
  /\ UNCHANGED <<cm_output, coreVars, scaVars, chunkVars>>

InOpenCfmaskDswe ==
  /\ Running
  /\ ~this.null
  /\ \E cf_ok \in CanOpen(this.cfmask_file_name), b1_ok \in BOOLEAN,
        ds_ok \in CanOpen(this.dswe_file_name), b2_ok \in BOOLEAN :
       LET o == OpenCfmaskDswe(this, cf_ok, b1_ok, ds_ok, b2_ok)
       IN /\ this' = o.st
          /\ call' \in {Lifecycle("open_cfmask_dswe", r, o.misuse) :
                          r \in Returns(IF o.ret THEN "true" ELSE "false",
                                            o.misuse)}
  /\ ncalls' = ncalls + 1
  /\ UNCHANGED <<cm_output, coreVars, scaVars, chunkVars>>

InCloseCfmaskDswe ==
  /\ Running
  /\ ~this.null
  /\ this' = CloseCfmaskDswe(this)
  /\ call' \in {Lifecycle("close_cfmask_dswe", r, CloseCfmaskDsweMisuse(this)) :
                  r \in Returns("void", CloseCfmaskDsweMisuse(this))}
  /\ ncalls' = ncalls + 1
  /\ UNCHANGED <<cm_output, coreVars, scaVars, chunkVars>>

InFreeCfmaskDswe ==
  /\ Running
  /\ ~this.null
  /\ this' = FreeCfmaskDswe(this)
  /\ call' \in {Lifecycle("free_cfmask_dswe", r, FreeCfmaskDsweMisuse(this)) :
                  r \in Returns("void", FreeCfmaskDsweMisuse(this))}
  /\ ncalls' = ncalls + 1
  /\ UNCHANGED <<cm_output, coreVars, scaVars, chunkVars>>

InGetReflLines ==
  /\ Running
  /\ \E iband \in ArgBands(InNBand), iline \in ArgLines, nlines \in ArgNLines :
       LET op == "get_input_refl_lines"
           band_ok == ~BadBand(iband, InNBand)
           fp == IF band_ok THEN this.fp_bin ELSE "NULL"
           inside == InsideRaster(iline, nlines, InNLines)
       IN IF this.null \/ ~this.refl_open \/ BadBand(iband, InNBand)
               \/ BadLine(iline, InNLines)
            THEN call' = Rejected(op, fp, band_ok, inside)
            ELSE call' \in Transferred(op, fp, band_ok, iline, nlines, InNLines)
  /\ ncalls' = ncalls + 1
  /\ UNCHANGED <<this, cm_output, coreVars, scaVars, chunkVars>>

InGetCfmaskLines ==
  /\ Running
  /\ \E iline \in ArgLines, nlines \in ArgNLines :
       LET op == "get_input_cfmask_lines"
           inside == InsideRaster(iline, nlines, InNLines)
       IN IF this.null \/ ~this.refl_open \/ BadLine(iline, InNLines)
            THEN call' = Rejected(op, this.fp_cfmask, TRUE, inside)
            ELSE call' \in Transferred(op, this.fp_cfmask, TRUE, iline, nlines,
                                       InNLines)
  /\ ncalls' = ncalls + 1
  /\ UNCHANGED <<this, cm_output, coreVars, scaVars, chunkVars>>

InGetDsweLines ==
  /\ Running
  /\ \E iline \in ArgLines, nlines \in ArgNLines :
       LET op == "get_input_dswe_lines"
           inside == InsideRaster(iline, nlines, InNLines)
       IN IF this.null \/ ~this.refl_open \/ BadLine(iline, InNLines)
            THEN call' = Rejected(op, this.fp_dswe, TRUE, inside)
            ELSE call' \in Transferred(op, this.fp_dswe, TRUE, iline, nlines,
                                       InNLines)
  /\ ncalls' = ncalls + 1
  /\ UNCHANGED <<this, cm_output, coreVars, scaVars, chunkVars>>

OutPutLines ==
  /\ Running
  /\ \E iband \in ArgBands(OutNBand), iline \in ArgLines, nlines \in ArgNLines :
       LET op == "put_output_lines"
           band_ok == ~BadBand(iband, OutNBand)
           fp == IF band_ok THEN cm_output.fp_bin ELSE "NULL"
           inside == InsideRaster(iline, nlines, InNLines)
       IN IF ~cm_output.open \/ BadBand(iband, OutNBand)
               \/ BadLine(iline, InNLines) \/ PastEnd(iline, nlines, InNLines)
            THEN call' = Rejected(op, fp, band_ok, inside)
            ELSE call' \in Transferred(op, fp, band_ok, iline, nlines, InNLines)
  /\ ncalls' = ncalls + 1
  /\ UNCHANGED <<this, cm_output, coreVars, scaVars, chunkVars>>

\* get_output_lines has no check of iband: with a band index outside the
\* array it reads this->fp_bin[iband] outside the array
OutGetLines ==
  /\ Running
  /\ \E iband \in ArgBands(OutNBand), iline \in ArgLines, nlines \in ArgNLines :
       LET op == "get_output_lines"
           band_ok == ~BadBand(iband, OutNBand)
           fp == IF band_ok THEN cm_output.fp_bin ELSE "NULL"
           inside == InsideRaster(iline, nlines, InNLines)
       IN IF ~cm_output.open \/ BadLine(iline, InNLines)
            THEN call' = Rejected(op, fp, band_ok, inside)
            ELSE call' \in Transferred(op, fp, band_ok, iline, nlines, InNLines)
  /\ ncalls' = ncalls + 1
  /\ UNCHANGED <<this, cm_output, coreVars, scaVars, chunkVars>>

\* close_output: ERROR when the file is not open
OutCloseOutput ==
  /\ Running
  /\ IF ~cm_output.open
       THEN /\ cm_output' = cm_output
            /\ call' = Lifecycle("close_output", "ERROR", FALSE)
       ELSE /\ cm_output' = [cm_output EXCEPT !.fp_bin = CloseRaw(@),
                                              !.open = FALSE]
            /\ call' = Lifecycle("close_output", "SUCCESS", FALSE)
  /\ ncalls' = ncalls + 1
  /\ UNCHANGED <<this, coreVars, scaVars, chunkVars>>

InNext ==
  \/ InOpenInput
  \/ InCloseInput
  \/ InFreeInput
  \/ InOpenCfmaskDswe
  \/ InCloseCfmaskDswe
  \/ InFreeCfmaskDswe
  \/ InGetReflLines
  \/ InGetCfmaskLines
  \/ InGetDsweLines
  \/ OutPutLines
  \/ OutGetLines
  \/ OutCloseOutput

SpecInput == InInit /\ [][InNext]_vars

(***************************************************************************)
(* snow_cover_class, one pixel at a time.  A scaled reflectance is held in *)
(* ten-thousandths (1.0 is 10000) and a scaled brightness temperature in   *)
(* hundredths; a scale factor is the number of these units per count.  The *)
(* floats are taken as exact.  An index is the pair of its numerator and   *)
(* its denominator; the reflectances of the inputs are not negative, so    *)
(* that a denominator is positive whenever the index is computed.          *)
(***************************************************************************)
NO_SNOW == 0
SNOW_COVER == 255
MAX_REFL == 10000          \* "b1_pix = 1.0"
REFL_SAT == 20000          \* refl_sat_value of the inputs

ReflBands == {1, 2, 3, 4, 5, 7}

\* "if (b1[pix] == refl_sat_value) bK_pix = 1.0;
\*  else bK_pix = bK[pix] * refl_scale_fact;"
ScaledRefl(k, b, par) ==
  IF b[1] = par.refl_sat_value THEN MAX_REFL ELSE b[k] * par.refl_scale_fact

\* b1_pix .. b7_pix of a pixel; band 6 is scaled as it is
ScaledPixel(b, par) ==
  [k \in 1..7 |->
     IF k = 6 THEN b[6] * par.btemp_scale_fact ELSE ScaledRefl(k, b, par)]

\* "ndsi < t", t in hundredths
RatioLess(q, t) == q.num * 100 < t * q.den

\* the uint8 of "ndsi * 100.0 + 0.5", and 0 for a negative index
RatioByte(q) ==
  IF q.num < 0 THEN 0 ELSE (200 * q.num + q.den) \div (2 * q.den)

\* the binary snow cover tree: the mask value, the probability score and
\* the node of a pixel
SnowTree(f) ==
  IF RatioLess(f.ndsi, 25)
  THEN
    IF f.b5 >= 720
    THEN
      IF f.b3 < 3500
      THEN
        [sc_mask |-> NO_SNOW, prob_score |-> 98, node |-> 1]
      ELSE
        [sc_mask |-> SNOW_COVER, prob_score |-> 100, node |-> 2]
    ELSE
      IF f.b1 < 1100
      THEN
        IF RatioLess(f.ndsi, 21)
        THEN
          [sc_mask |-> NO_SNOW, prob_score |-> 98, node |-> 31]
        ELSE
          IF f.b3 < 420
          THEN
            [sc_mask |-> NO_SNOW, prob_score |-> 91, node |-> 32]
          ELSE
            [sc_mask |-> SNOW_COVER, prob_score |-> 85, node |-> 33]
      ELSE
        IF RatioLess(f.ndsi, 15)
        THEN
          [sc_mask |-> NO_SNOW, prob_score |-> 83, node |-> 34]
        ELSE
          [sc_mask |-> SNOW_COVER, prob_score |-> 95, node |-> 35]
  ELSE
    IF f.b7 >= 1400
    THEN
      IF f.b4 < 3200
      THEN
        IF RatioLess(f.ndvi, 19)
        THEN
          IF f.b1 < 3000
          THEN
            [sc_mask |-> NO_SNOW, prob_score |-> 96, node |-> 4]
          ELSE
            [sc_mask |-> SNOW_COVER, prob_score |-> 100, node |-> 5]
        ELSE
          [sc_mask |-> SNOW_COVER, prob_score |-> 91, node |-> 6]
      ELSE
        IF RatioLess(f.ndsi, 57)
        THEN
          IF RatioLess(f.ndvi, 18)
          THEN
            IF f.b1 < 3500
            THEN
              [sc_mask |-> NO_SNOW, prob_score |-> 79, node |-> 7]
            ELSE
              IF f.b7 >= 2200
              THEN
                [sc_mask |-> NO_SNOW, prob_score |-> 84, node |-> 8]
              ELSE
                [sc_mask |-> SNOW_COVER, prob_score |-> 88, node |-> 9]
          ELSE
            [sc_mask |-> SNOW_COVER, prob_score |-> 95, node |-> 10]
        ELSE
          [sc_mask |-> SNOW_COVER, prob_score |-> 93, node |-> 11]
    ELSE
      IF f.b5 >= 1000
      THEN
        IF f.b7 >= 1100
        THEN
          IF f.b1 < 3400
          THEN
            [sc_mask |-> NO_SNOW, prob_score |-> 90, node |-> 12]
          ELSE
            [sc_mask |-> SNOW_COVER, prob_score |-> 100, node |-> 13]
        ELSE
          [sc_mask |-> SNOW_COVER, prob_score |-> 81, node |-> 14]
      ELSE
        IF f.b3 < 432
        THEN
          [sc_mask |-> NO_SNOW, prob_score |-> 93, node |-> 151]
        ELSE
          [sc_mask |-> SNOW_COVER, prob_score |-> 99, node |-> 152]

\* what the loop body assigns to the five output arrays for a pixel whose
\* QA mask is zero and whose scaled values are v
ClassifyPixel(v) ==
  LET f == [b1 |-> v[1], b2 |-> v[2], b3 |-> v[3], b4 |-> v[4],
            b5 |-> v[5], b7 |-> v[7],
            ndsi |-> [num |-> v[2] - v[5], den |-> v[2] + v[5]],
            ndvi |-> [num |-> v[4] - v[3], den |-> v[4] + v[3]]]
      early == [snow_mask |-> NO_SNOW, probability_score |-> 3,
                tree_node |-> 0, ndsi |-> 0, ndvi |-> 0]
      t == SnowTree(f)
  IN  IF v[4] < 1100 THEN early
      ELSE IF v[6] > 2485 THEN early
      ELSE IF v[2] = 0 /\ v[5] = 0 THEN early
      ELSE IF v[3] = 0 /\ v[4] = 0 THEN early
      ELSE IF v[6] > 1885 /\ t.prob_score < 98
        THEN [snow_mask |-> NO_SNOW, probability_score |-> 2,
              tree_node |-> 0, ndsi |-> RatioByte(f.ndsi),
              ndvi |-> RatioByte(f.ndvi)]
        ELSE [snow_mask |-> t.sc_mask, probability_score |-> t.prob_score,
              tree_node |-> t.node, ndsi |-> RatioByte(f.ndsi),
              ndvi |-> RatioByte(f.ndvi)]

\* the inputs: arrays of ScaPixels pixels, the first one with any of the
\* values below in each band, the others alike
ScaPixels == 1
ReflCounts == {0, 1200, 4000, REFL_SAT}
BtempCounts == {1000, 2000}
ScaleFactors == {1, 2}

ScaBands ==
  {[k \in 1..7 |-> IF k = 6 THEN t ELSE r[k]] :
     r \in [1..7 -> ReflCounts], t \in BtempCounts}

OtherPixels ==
  {[b |-> [k \in 1..7 |-> 4000], qa |-> 0],
   [b |-> [k \in 1..7 |-> IF k = 1 THEN REFL_SAT ELSE 1200], qa |-> 0]}

ScaArrays ==
  {[p \in 0..(ScaPixels - 1) |-> IF p = 0 THEN [b |-> x, qa |-> q] ELSE o] :
     x \in ScaBands,
     q \in {0, 1}, o \in OtherPixels}

SnowInit ==
  /\ spc = "loop"
  /\ sca_par \in {[refl_scale_fact |-> s, btemp_scale_fact |-> 1,
                   refl_sat_value |-> REFL_SAT] : s \in ScaleFactors}
  /\ sca_in \in ScaArrays
  /\ sca_pix = 0
  /\ b_pix = <<>>
  /\ snow_mask \in {[p \in 0..(ScaPixels - 1) |-> v] : v \in {NO_SNOW, 7}}
  /\ probability_score = [p \in 0..(ScaPixels - 1) |-> 7]
  /\ tree_node = [p \in 0..(ScaPixels - 1) |-> 7]
  /\ ndsi_array = [p \in 0..(ScaPixels - 1) |-> 7]
  /\ ndvi_array = [p \in 0..(ScaPixels - 1) |-> 7]
  /\ snow_entry = <<>>
  /\ CoreIdle
  /\ InIdle
  /\ ChunkIdle

\* "if (refl_qa_mask[pix] != 0)": the outputs are zeroed, "continue"
SnowSkip ==
  /\ spc = "loop"
  /\ sca_pix < ScaPixels
  /\ sca_in[sca_pix].qa # 0
  /\ snow_mask' = [snow_mask EXCEPT ![sca_pix] = NO_SNOW]
  /\ probability_score' = [probability_score EXCEPT ![sca_pix] = 0]
  /\ tree_node' = [tree_node EXCEPT ![sca_pix] = 0]
  /\ ndsi_array' = [ndsi_array EXCEPT ![sca_pix] = 0]
  /\ ndvi_array' = [ndvi_array EXCEPT ![sca_pix] = 0]
  /\ sca_pix' = sca_pix + 1
  /\ UNCHANGED <<spc, sca_par, sca_in, b_pix, snow_entry>>
  /\ UNCHANGED <<coreVars, inVars, chunkVars>>

\* the seven bands of the pixel are scaled
SnowScale ==
  /\ spc = "loop"
  /\ sca_pix < ScaPixels
  /\ sca_in[sca_pix].qa = 0
  /\ b_pix' = ScaledPixel(sca_in[sca_pix].b, sca_par)
  /\ spc' = "scaled"
  /\ UNCHANGED <<sca_par, sca_in, sca_pix, snow_mask, probability_score,
                 tree_node, ndsi_array, ndvi_array, snow_entry>>
  /\ UNCHANGED <<coreVars, inVars, chunkVars>>

\* the tests, the tree and the assignments of the pixel
SnowClassify ==
  /\ spc = "scaled"
  /\ LET c == ClassifyPixel(b_pix)
     IN /\ snow_mask' = [snow_mask EXCEPT ![sca_pix] = c.snow_mask]
        /\ probability_score' =
             [probability_score EXCEPT ![sca_pix] = c.probability_score]
        /\ tree_node' = [tree_node EXCEPT ![sca_pix] = c.tree_node]
        /\ ndsi_array' = [ndsi_array EXCEPT ![sca_pix] = c.ndsi]
        /\ ndvi_array' = [ndvi_array EXCEPT ![sca_pix] = c.ndvi]
  /\ sca_pix' = sca_pix + 1
  /\ b_pix' = <<>>
  /\ spc' = "loop"
  /\ UNCHANGED <<sca_par, sca_in, snow_entry>>
  /\ UNCHANGED <<coreVars, inVars, chunkVars>>

SnowReturn ==
  /\ spc = "loop"
  /\ sca_pix = ScaPixels
  /\ spc' = "done"
  /\ UNCHANGED <<sca_par, sca_in, sca_pix, b_pix, snow_mask,
                 probability_score, tree_node, ndsi_array, ndvi_array,
                 snow_entry>>
  /\ UNCHANGED <<coreVars, inVars, chunkVars>>

SnowNext ==
  \/ SnowSkip
  \/ SnowScale
  \/ SnowClassify
  \/ SnowReturn

SpecSnow == SnowInit /\ [][SnowNext]_vars

(***************************************************************************)
(* post_process_snow_cover_class, one pixel at a time.  The arrays are     *)
(* one-dimensional, of nlines * nsamps pixels, from 0.                     *)
(***************************************************************************)
SNOW_HALF_WINDOW == 4      \* "static int HALF_WINDOW = 4"
SNOW_COUNT_THRESH == 7

\* the pixels of the window around (line, samp), cut at the image borders
SnowWindow(l, s, nlines, nsamps) ==
  LET start_window_line == IF l - SNOW_HALF_WINDOW < 0
                             THEN 0 ELSE l - SNOW_HALF_WINDOW
      end_window_line == IF l + SNOW_HALF_WINDOW >= nlines
                           THEN nlines - 1 ELSE l + SNOW_HALF_WINDOW
      start_window_samp == IF s - SNOW_HALF_WINDOW < 0
                             THEN 0 ELSE s - SNOW_HALF_WINDOW
      end_window_samp == IF s + SNOW_HALF_WINDOW >= nsamps
                           THEN nsamps - 1 ELSE s + SNOW_HALF_WINDOW
  IN  {win_line * nsamps + win_samp :
         win_line \in start_window_line..end_window_line,
         win_samp \in start_window_samp..end_window_samp}

\* count: the snow pixels of the window in the mask as it is
SnowCount(mask, l, s, nlines, nsamps) ==
  Cardinality({win_pix \in SnowWindow(l, s, nlines, nsamps) :
                 mask[win_pix] = SNOW_COVER})

\* "orig_node = tree_node[pix] / 10"
OrigNode(node) == node \div 10

\* the mask after the loop body for the pixel p of the scan
PostPixel(mask, node, p, nlines, nsamps) ==
  IF /\ mask[p] = SNOW_COVER
     /\ (OrigNode(node[p]) = 15 \/ OrigNode(node[p]) = 3)
     /\ SnowCount(mask, p \div nsamps, p % nsamps, nlines, nsamps)
          < SNOW_COUNT_THRESH
    THEN [mask EXCEPT ![p] = NO_SNOW]
    ELSE mask

\* the inputs: a rectangle of snow pixels; the snow pixels of two samples
\* come from node 3-3 of the tree, the others from node 2
PostLines == 1
PostSamps == 8
PostPixels == 0..(PostLines * PostSamps - 1)

PostMasks ==
  {[p \in PostPixels |->
      IF /\ l1 <= p \div PostSamps /\ p \div PostSamps <= l2
         /\ s1 <= p % PostSamps /\ p % PostSamps <= s2
        THEN SNOW_COVER ELSE NO_SNOW] :
     l1 \in 0..(PostLines - 1), l2 \in 0..(PostLines - 1),
     s1 \in 0..(PostSamps - 1), s2 \in 0..(PostSamps - 1)}

PostNodes(mask) ==
  {[p \in PostPixels |->
      IF mask[p] = NO_SNOW THEN 1
      ELSE IF p % PostSamps \in {a, b} THEN 33 ELSE 2] :
     a \in 0..(PostSamps - 1), b \in 0..(PostSamps - 1)}

PostInit ==
  /\ spc = "post"
  /\ snow_mask \in PostMasks
  /\ tree_node \in PostNodes(snow_mask)
  /\ snow_entry = snow_mask
  /\ sca_pix = 0
  /\ sca_par = <<>>
  /\ sca_in = <<>>
  /\ b_pix = <<>>
  /\ probability_score = <<>>
  /\ ndsi_array = <<>>
  /\ ndvi_array = <<>>
  /\ CoreIdle
  /\ InIdle
  /\ ChunkIdle

\* the body of the two loops for one pixel
PostStep ==
  /\ spc = "post"
  /\ sca_pix < PostLines * PostSamps
  /\ snow_mask' = PostPixel(snow_mask, tree_node, sca_pix, PostLines, PostSamps)
  /\ sca_pix' = sca_pix + 1
  /\ UNCHANGED <<spc, sca_par, sca_in, b_pix, probability_score, tree_node,
                 ndsi_array, ndvi_array, snow_entry>>
  /\ UNCHANGED <<coreVars, inVars, chunkVars>>

PostReturn ==
  /\ spc = "post"
  /\ sca_pix = PostLines * PostSamps
  /\ spc' = "postdone"
  /\ UNCHANGED <<sca_par, sca_in, sca_pix, b_pix, snow_mask,
                 probability_score, tree_node, ndsi_array, ndvi_array,
                 snow_entry>>
  /\ UNCHANGED <<coreVars, inVars, chunkVars>>

PostNext ==
  \/ PostStep
  \/ PostReturn

SpecPost == PostInit /\ [][PostNext]_vars

(***************************************************************************)
(* The loops of main that read, process and write the raster some lines at *)
(* a time: "for (line = 0; line < nlines; line += PROC_NLINES)" in         *)
(* scene_based_sca.c and rule_based_model.c, and the loop of the shaded    *)
(* relief, which adds nlines_proc.  A pass calls the readers, the          *)
(* classifiers and the writers for the lines line .. line+nlines_proc-1.   *)
(***************************************************************************)
MaxRaster == 8      \* the largest number of lines of a raster
MaxProc == 4        \* the largest PROC_NLINES

\* nlines_proc as if the last pass were a whole one
LinesToProcess_Whole(iline, n_proc, nlines) == n_proc

\* "if (line + nlines_proc >= nlines) nlines_proc = nlines - line;"
LinesToProcess(iline, n_proc, nlines) ==
  IF iline + n_proc >= nlines THEN nlines - iline ELSE n_proc

ChunkInit ==
  /\ cpc = "loop"
  /\ loop_nlines \in 1..MaxRaster
  /\ proc_nlines \in 1..MaxProc
  /\ loop_step \in {"PROC_NLINES", "nlines_proc"}
  /\ loop_line = 0
  /\ nlines_proc = proc_nlines
  /\ chunks = <<>>
  /\ CoreIdle
  /\ InIdle
  /\ ScaIdle

\* a pass of the loops that add PROC_NLINES
ChunkFixedStep ==
  /\ cpc = "loop"
  /\ loop_step = "PROC_NLINES"
  /\ loop_line < loop_nlines
  /\ nlines_proc' = LinesToProcess(loop_line, nlines_proc, loop_nlines)
  /\ chunks' = Append(chunks, [line |-> loop_line, nlines |-> nlines_proc'])
  /\ loop_line' = loop_line + proc_nlines
  /\ UNCHANGED <<cpc, loop_nlines, proc_nlines, loop_step>>
  /\ UNCHANGED <<coreVars, inVars, scaVars>>

\* a pass of the loop that adds nlines_proc
ChunkOwnStep ==
  /\ cpc = "loop"
  /\ loop_step = "nlines_proc"
  /\ loop_line < loop_nlines
  /\ nlines_proc' = LinesToProcess(loop_line, nlines_proc, loop_nlines)
  /\ chunks' = Append(chunks, [line |-> loop_line, nlines |-> nlines_proc'])
  /\ loop_line' = loop_line + nlines_proc'
  /\ UNCHANGED <<cpc, loop_nlines, proc_nlines, loop_step>>
  /\ UNCHANGED <<coreVars, inVars, scaVars>>

\* "line < nlines" fails
ChunkEnd ==
  /\ cpc = "loop"
  /\ loop_line >= loop_nlines
  /\ cpc' = "done"
  /\ UNCHANGED <<loop_nlines, proc_nlines, loop_step, loop_line,
                 nlines_proc, chunks>>
  /\ UNCHANGED <<coreVars, inVars, scaVars>>

ChunkNext ==
  \/ ChunkFixedStep
  \/ ChunkOwnStep
  \/ ChunkEnd

SpecChunk == ChunkInit /\ [][ChunkNext]_vars
(***************************************************************************)
(* Properties.                                                             *)
(***************************************************************************)
ScenePixels == (1..NLines) \X (1..NSamps)
IsWater(v) == v \in 1..3
FlaggedPixels(img) ==
  {p \in (1..Len(img)) \X (1..Len(img[1])) : img[p[1]][p[2]] # 0}

\* C1: in the final mask that a run writes, every pixel that is fill in
\* cfmask carries the fill code, whatever the refined verdict and the DSWE
\* value of the pixel are.  The fill code is taken as either the 0 that the
\* marking loop gives fill pixels or the fill value 255 declared for the band.
C1_FillStaysFill ==
  pc = "done" =>
    \A p \in ScenePixels :
      in_cfmask[p[1]][p[2]] = CFMASK_FILL =>
        out_file[p[1]][p[2]] \in {0, CFMASK_FILL_VALUE}

\* a fill pixel that the erosion and dilation turned to cloud is written
\* as 0 when DSWE does not call it water
C1_Witness ==
  /\ pc = "done"
  /\ \E p \in ScenePixels :
       /\ in_cfmask[p[1]][p[2]] = CFMASK_FILL
       /\ refined[p[1]][p[2]] = OUT_CLOUD
       /\ ~IsWater(in_dswe[p[1]][p[2]])
       /\ out_file[p[1]][p[2]] = 0

\* C2 (as the code has it): a pixel that is not fill and whose verdict
\* after the erosion and dilation is cloud is cloud (2) in the final mask,
\* unless DSWE has 1, 2 or 3 at the pixel: then it is water (3).
C2_CloudUnlessWater ==
  pc = "done" =>
    \A p \in ScenePixels :
      (in_cfmask[p[1]][p[2]] # CFMASK_FILL /\ refined[p[1]][p[2]] = OUT_CLOUD)
        => out_file[p[1]][p[2]] =
             IF IsWater(in_dswe[p[1]][p[2]]) THEN OUT_WATER ELSE OUT_CLOUD

C2_Witness ==
  /\ pc = "done"
  /\ \E p \in ScenePixels :
       /\ in_cfmask[p[1]][p[2]] = CFMASK_CLOUD
       /\ refined[p[1]][p[2]] = OUT_CLOUD
       /\ IsWater(in_dswe[p[1]][p[2]])
       /\ out_file[p[1]][p[2]] = OUT_WATER

\* C2 as stated: such a pixel is cloud in the final mask whatever the DSWE
\* value is; the water marking never overwrites cloud.
C2_CloudWhateverWater ==
  pc = "done" =>
    \A p \in ScenePixels :
      (in_cfmask[p[1]][p[2]] # CFMASK_FILL /\ refined[p[1]][p[2]] = OUT_CLOUD)
        => out_file[p[1]][p[2]] = OUT_CLOUD

\* C3 (as the code has it): a pixel that cfmask flags as cloud and whose
\* verdict after the erosion and dilation is clear is possibly cloud (1) in
\* the final mask, or water (3) when DSWE has 1, 2 or 3 at the pixel; it is
\* never clear (0).
C3_PossiblyCloudUnlessWater ==
  pc = "done" =>
    \A p \in ScenePixels :
      (in_cfmask[p[1]][p[2]] = CFMASK_CLOUD /\ refined[p[1]][p[2]] = OUT_NOCLOUD)
        => out_file[p[1]][p[2]] =
             IF IsWater(in_dswe[p[1]][p[2]]) THEN OUT_WATER
             ELSE OUT_POSS_CLOUD

\* the rule-based model called the pixel cloud, the erosion cleared it
C3_Witness ==
  /\ pc = "done"
  /\ \E p \in ScenePixels :
       /\ in_cfmask[p[1]][p[2]] = CFMASK_CLOUD
       /\ in_refl[p[1]][p[2]] = CloudRefl
       /\ refined[p[1]][p[2]] = OUT_NOCLOUD
       /\ ~IsWater(in_dswe[p[1]][p[2]])
       /\ out_file[p[1]][p[2]] = OUT_POSS_CLOUD

\* C3 as stated: such a pixel is always possibly cloud in the final mask.
C3_AlwaysPossiblyCloud ==
  pc = "done" =>
    \A p \in ScenePixels :
      (in_cfmask[p[1]][p[2]] = CFMASK_CLOUD /\ refined[p[1]][p[2]] = OUT_NOCLOUD)
        => out_file[p[1]][p[2]] = OUT_POSS_CLOUD

\* C4: rule_based_model leaves every sample whose cfmask value is not the
\* cloud code at 0 (clear), whatever its reflectances, and runs the
\* decision lists only for samples whose cfmask value is the cloud code.
C4_NonCloudLeftClear ==
  /\ \A i \in 1..Len(cfmask_buf) :
       cfmask_buf[i] # CFMASK_CLOUD =>
         (rev_cloud_mask[i] = 0 /\ (i - 1) \notin evaluated)
  /\ \A s \in evaluated : cfmask_buf[s + 1] = CFMASK_CLOUD
  /\ rpc \in {"rules", "vote", "voted"} => cfmask_buf[samp + 1] = CFMASK_CLOUD

C4_Witness ==
  /\ rpc = "done"
  /\ \E i, j \in 1..LineLen :
       /\ cfmask_buf[i] = CFMASK_FILL
       /\ rev_cloud_mask[i] = 0
       /\ (i - 1) \notin evaluated
       /\ cfmask_buf[j] = CFMASK_CLOUD
       /\ rev_cloud_mask[j] = OUT_CLOUD
       /\ (j - 1) \in evaluated

\* C5: for an evaluated sample the verdict is the maximum of the five class
\* codes: it is cloud exactly if at least one decision list says cloud, and
\* clear only if all five say cloud free.
C5_VerdictIsMaximum ==
  rpc = "voted" =>
    /\ limited_cloud_code = SetMax({mcode[k] : k \in Members})
    /\ (rev_cloud_mask[samp + 1] = OUT_CLOUD)
         <=> (\E k \in Members : mcode[k] = CLOUD)
    /\ (rev_cloud_mask[samp + 1] = 0)
         => (\A k \in Members : mcode[k] = CLOUD_FREE)

\* one decision list says cloud, the other four say cloud free
C5_Witness ==
  /\ rpc = "voted"
  /\ Cardinality({k \in Members : mcode[k] = CLOUD}) = 1
  /\ Cardinality({k \in Members : mcode[k] = CLOUD_FREE}) = 4
  /\ rev_cloud_mask[samp + 1] = OUT_CLOUD

\* the rules among the first n of decision list k that the sample satisfies
SatisfiedRules(k, f, n) ==
  {i \in 1..n : RuleHolds(MemberRules(k)[i], f)}

ClassOfFirst(k, f, n, otherwise) ==
  IF SatisfiedRules(k, f, n) = {} THEN otherwise
  ELSE MemberRules(k)[SetMin(SatisfiedRules(k, f, n))].class

\* C6: the class of a decision list is the class of the first rule, in the
\* order of the list, whose conditions all hold; the rules after it do not
\* change the class; when no rule holds the class is the default of the
\* list.  Stated while the list is run (after each rule the code is the
\* class of the first satisfied rule so far, or undecided) and at the vote.
C6_FirstSatisfiedRule ==
  /\ rpc = "rules" =>
       mcode[member] = ClassOfFirst(member, px, ridx - 1, UNDECIDED)
  /\ rpc = "vote" =>
       \A k \in Members :
         mcode[k] =
           ClassOfFirst(k, px, Len(MemberRules(k)), MemberDefault(k))

\* at the vote: one list took its default, and in another a later rule of
\* the other class holds too
C6_Witness ==
  /\ rpc = "vote"
  /\ \E k \in Members :
       /\ SatisfiedRules(k, px, Len(MemberRules(k))) = {}
       /\ mcode[k] = MemberDefault(k)
  /\ \E k \in Members :
       \E i, j \in SatisfiedRules(k, px, Len(MemberRules(k))) :
         /\ i = SetMin(SatisfiedRules(k, px, Len(MemberRules(k))))
         /\ i < j
         /\ MemberRules(k)[i].class # MemberRules(k)[j].class
         /\ mcode[k] = MemberRules(k)[i].class

\* C7 (as the code has it): both calls work in place on the OpenCV image.
\* The erosion overwrites the image with its result, and the dilation takes
\* that result, not the raster from before the erosion, as its input.
C7_DilationOfErosion ==
  /\ pc = "eroded" => cv_img = cvErode(rev_cm)
  /\ pc = "dilated" => cv_img = cvDilate(cvErode(rev_cm))

\* a raster for which the two readings differ
C7_Witness ==
  /\ pc = "dilated"
  /\ FlaggedPixels(cv_img) # {}
  /\ cv_img # cvDilate(rev_cm)
  /\ cv_img = cvDilate(cvErode(rev_cm))

\* C7 as stated: the erosion does not overwrite the raster that the
\* dilation reads, and the dilation takes the raster from before the
\* erosion as its input.
C7_DilationOfOriginal ==
  /\ pc = "eroded" => cv_img = rev_cm
  /\ pc = "dilated" => cv_img = cvDilate(rev_cm)

\* C8: the erosion followed by the dilation, applied to a raster that is
\* already the result of that step, returns the same raster.
C8_OpeningIdempotent ==
  (pc = "dilated" /\ pass = 2) => cv_img = rev_cm

\* the step applied to its own result with flagged pixels in it
C8_Witness ==
  /\ pc = "dilated"
  /\ pass = 2
  /\ FlaggedPixels(rev_cm) # {}

\* a pixel whose eight neighbours are all in the image
Interior(img, p) ==
  /\ 1 < p[1] /\ p[1] < Len(img)
  /\ 1 < p[2] /\ p[2] < Len(img[1])

\* C9: a raster whose only flagged pixel is a single pixel has no flagged
\* pixel after the erosion and dilation.
C9_SinglePixelErased ==
  (pc = "dilated" /\ pass = 1 /\ Cardinality(FlaggedPixels(rev_cm)) = 1)
    => FlaggedPixels(cv_img) = {}

C9_Witness ==
  /\ pc = "dilated"
  /\ pass = 1
  /\ \E p \in FlaggedPixels(rev_cm) :
       /\ FlaggedPixels(rev_cm) = {p}
       /\ Interior(rev_cm, p)
  /\ FlaggedPixels(cv_img) = {}

\* C10: make_index returns the fill value (FILL_VALUE, -9999) whenever
\* one of its two band values equals the fill value that it was given.
C10_FillReturnsFill ==
  (ipc = "done" /\ (band1 = fill_value \/ band2 = fill_value))
    => spec_indx = IdxOfInt(FILL_VALUE)

\* only the second band is fill
C10_Witness ==
  /\ ipc = "done"
  /\ band1 # fill_value
  /\ band2 = fill_value
  /\ spec_indx = IdxOfInt(FILL_VALUE)

\* a float that is a number between -1.0 and 1.0
InUnitRange(v) ==
  /\ "nan" \in DOMAIN v
  /\ ~v.nan
  /\ (v.ip = 0 \/ (v.ip = 1 /\ v.fq = 0 /\ v.exact))

\* C16: for two band values that are not fill and not equal, also when
\* their sum is zero, make_index returns a value in [-1, 1].
C16_IndexInUnitRange ==
  (ipc = "done" /\ band1 # fill_value /\ band2 # fill_value /\ band1 # band2)
    => InUnitRange(spec_indx)

\* the sum of the two bands is zero: the quotient is infinite, the index 1
C16_Witness ==
  /\ ipc = "done"
  /\ band1 # fill_value /\ band2 # fill_value
  /\ band1 # band2
  /\ band1 + band2 = 0
  /\ spec_indx = IdxOfInt(1)

\* a == b for two floats: false when either is NaN
FloatEq(a, b) ==
  /\ "nan" \in DOMAIN a /\ "nan" \in DOMAIN b
  /\ ~a.nan /\ ~b.nan
  /\ a = b

\* C17 (as the code has it): for two band values A and B that are not fill
\* and not both zero, make_index(A, B) equals the negation of
\* make_index(B, A); for A = B = 0 both calls return NaN, which equals
\* nothing.
C17_AntisymmetricUnlessBothZero ==
  (ipc = "both" /\ band1 # fill_value /\ band2 # fill_value)
    => IF band1 = 0 /\ band2 = 0
         THEN spec_indx.nan /\ swap_indx.nan
         ELSE FloatEq(spec_indx, IdxNegate(swap_indx))

\* two different bands with a quotient that is not zero
C17_Witness ==
  /\ ipc = "both"
  /\ band1 # fill_value /\ band2 # fill_value
  /\ band1 > band2 /\ band2 > 0
  /\ ~spec_indx.neg /\ swap_indx.neg
  /\ FloatEq(spec_indx, IdxNegate(swap_indx))

\* C17 as stated: for every two band values that are not fill,
\* make_index(A, B) equals the negation of make_index(B, A).
C17_Antisymmetric ==
  (ipc = "both" /\ band1 # fill_value /\ band2 # fill_value)
    => FloatEq(spec_indx, IdxNegate(swap_indx))

\* cfmask flags no pixel of the scene as cloud
NoCloudInCfmask ==
  \A p \in ScenePixels : in_cfmask[p[1]][p[2]] # CFMASK_CLOUD

\* C13 (as the code has it): when cfmask is not cloud at every pixel of
\* the scene, the final mask is clear (0) at every pixel at which DSWE is
\* not 1, 2 or 3, and water (3) at the others.
C13_NoCloudClearOrWater ==
  (pc = "done" /\ NoCloudInCfmask) =>
    \A p \in ScenePixels :
      out_file[p[1]][p[2]] =
        IF IsWater(in_dswe[p[1]][p[2]]) THEN OUT_WATER ELSE OUT_NOCLOUD

\* a scene of clear pixels without water
C13_Witness ==
  /\ pc = "done"
  /\ \A p \in ScenePixels :
       /\ in_cfmask[p[1]][p[2]] = 0
       /\ ~IsWater(in_dswe[p[1]][p[2]])
       /\ out_file[p[1]][p[2]] = OUT_NOCLOUD

\* C13 as stated: when cfmask is not cloud at every pixel of the scene,
\* the final mask is clear at every pixel.
C13_NoCloudAllClear ==
  (pc = "done" /\ NoCloudInCfmask) =>
    \A p \in ScenePixels : out_file[p[1]][p[2]] = OUT_NOCLOUD


\* what the line loop of main writes for line l: the verdict of
\* rule_based_model alone
FirstWrite(l) == RevisedLine(in_cfmask[l], in_refl[l], REFL_FILL)

Aborted == pc \in {"error", "fault"}

\* C14: when a check or a stage of the run fails, the run is aborted and no
\* mask raster is left in the output band.
C14_NoPartialOutput ==
  Aborted => out_file = NoImage

\* an aborted run that leaves the whole band behind, holding the verdict of
\* rule_based_model without the erosion, the dilation and the marking
C14_Witness ==
  /\ pc = "error"
  /\ dswe_file_name = "NULL"
  /\ Len(out_file) = NLines
  /\ \A l \in 1..NLines : out_file[l] = FirstWrite(l)
  /\ \E p \in ScenePixels : out_file[p[1]][p[2]] = OUT_CLOUD

\* the pixels of the input array of buffer that are not zero
NonZero == {p \in BufPixels : array[p] # 0}

\* the distance between two pixels along the lines plus along the samples
RightAngle(p, q) ==
  Abs((p \div BufSamps) - (q \div BufSamps))
    + Abs((p % BufSamps) - (q % BufSamps))

\* C12: when the input array of buffer has one non-zero pixel, the output
\* array has the value of that pixel at every pixel of the image whose
\* right-angle distance to it is at most the buffer distance, and zero at
\* every other pixel.
C12_SinglePixelDiamond ==
  (bpc = "done" /\ Cardinality(NonZero) = 1) =>
    \A p \in NonZero : \A q \in BufPixels :
      buff_array[q] = IF RightAngle(p, q) <= distance THEN array[p] ELSE 0

\* a pixel in a corner, so that part of the filter is outside of the image
C12_Witness ==
  /\ bpc = "done"
  /\ NonZero = {BufSamps - 1}
  /\ distance = 2
  /\ buff_array[BufSamps] = 0
  /\ buff_array[2 * BufSamps - 1] = array[BufSamps - 1]

\* C18: buffer with distance 0 gives an output array equal to the input
\* array.
C18_DistanceZeroIdentity ==
  (bpc = "done" /\ distance = 0) => buff_array = array

C18_Witness ==
  /\ bpc = "done"
  /\ distance = 0
  /\ Cardinality(NonZero) > 2
  /\ \E p \in NonZero : array[p] = 2
  /\ buff_array = array

\* pixel p is within HALF_WINDOW pixels of an edge of the image
NearEdge(p) ==
  \/ p \div VarSamps < HALF_WINDOW
  \/ p \div VarSamps >= VarLines - HALF_WINDOW
  \/ p % VarSamps < HALF_WINDOW
  \/ p % VarSamps >= VarSamps - HALF_WINDOW

\* the pixels of the image in the 9x9 window around pixel p
WindowOf(p) ==
  {q \in VarPixels :
     /\ Abs((q \div VarSamps) - (p \div VarSamps)) <= HALF_WINDOW
     /\ Abs((q % VarSamps) - (p % VarSamps)) <= HALF_WINDOW}

WindowHasFill(p) == \E q \in WindowOf(p) : var_array[q] = var_fill

\* C11: when variance returns, the output is fill at every pixel that is
\* within 4 pixels of an edge of the image or has a fill pixel in its 9x9
\* window; a pixel whose output is not fill has its whole window inside the
\* image and without fill.
C11_FillAtBorderAndFill ==
  (vpc = "done") =>
    \A p \in VarPixels :
      /\ (NearEdge(p) \/ WindowHasFill(p)) => variance[p] = var_fill
      /\ (variance[p] # var_fill) => (~NearEdge(p) /\ ~WindowHasFill(p))

\* one inner pixel with a fill pixel in a corner of its window, and another
\* inner pixel with a variance
C11_Witness ==
  /\ vpc = "done"
  /\ var_array[0] = var_fill
  /\ variance[HALF_WINDOW * VarSamps + HALF_WINDOW] = var_fill
  /\ variance[HALF_WINDOW * VarSamps + HALF_WINDOW + 1] > 0

\* the second run is over
BothRuns == vpc = "done" /\ scale_factor = ScaleSmall

\* C19 (as the code has it): the run with scale factor 1.0 writes the
\* variance of the values as they are, rounded; the run with scale factor
\* 0.0001 writes the variance of the scaled values multiplied by 10000,
\* rounded.  The two arrays are fill at the same pixels, and elsewhere the
\* second value is the first one times 0.0001 (the square of the ratio of
\* the scale factors, times the output scale 10000), up to the rounding of
\* both.
C19_RatioTimesOutScale ==
  BothRuns =>
    \A p \in VarPixels :
      /\ (variance[p] = var_fill) <=> (first_variance[p] = var_fill)
      /\ (variance[p] # var_fill) =>
           Abs(variance[p] * FLOAT_TO_INT - first_variance[p])
             <= FLOAT_TO_INT \div 2

C19_Witness ==
  /\ BothRuns
  /\ \E p \in VarPixels :
       /\ variance[p] > 1
       /\ first_variance[p] > FLOAT_TO_INT

\* C19 as stated: the second value is the first one times the square of the
\* ratio of the scale factors, 0.0001 * 0.0001, up to the rounding
C19_SquareOfRatio ==
  BothRuns =>
    \A p \in VarPixels :
      (variance[p] # var_fill) =>
        Abs(variance[p] * (FLOAT_TO_INT * FLOAT_TO_INT) - first_variance[p])
          <= (FLOAT_TO_INT * FLOAT_TO_INT) \div 2

\* the variances of the sample are fill
FillVariance ==
  \A v \in {"b1_var", "b2_var", "b4_var", "b5_var", "b7_var",
            "ndvi_var", "ndsi_var"} : old_px[v] = VAR_FILL

C21_CloudOnlyWhereCfmaskCloud ==
  (pc = "done") =>
    \A p \in ScenePixels :
      out_file[p[1]][p[2]] = OUT_CLOUD =>
        in_cfmask[p[1]][p[2]] = CFMASK_CLOUD

\* a clear pixel of cfmask, left at 0 by rule_based_model, that the dilation
\* has set and that the final mask has as cloud
C21_Witness ==
  /\ pc = "done"
  /\ \E p \in ScenePixels :
       /\ in_cfmask[p[1]][p[2]] = 0
       /\ FirstWrite(p[1])[p[2]] = 0
       /\ refined[p[1]][p[2]] = OUT_CLOUD
       /\ out_file[p[1]][p[2]] = OUT_CLOUD

(***************************************************************************)
(* C22: for every feature vector each of the five model runs ends with a   *)
(* class code of 50 (clear) or 100 (cloud): when the maximum of the five   *)
(* codes is taken, and after it, none of them is still -1.                 *)
(***************************************************************************)
C22_EveryMemberDecided ==
  (rpc \in {"vote", "voted"}) =>
    \A k \in 1..NumMembers : mcode[k] \in {CLOUD_FREE, CLOUD}

\* a sample for which the rules of some model run decide nothing, so that
\* the code of that run is the default, at the vote
C22_Witness ==
  /\ rpc = "vote"
  /\ \E k \in 1..NumMembers :
       /\ RunRules(k, px, UNDECIDED, 1, Len(MemberRules(k))) = UNDECIDED
       /\ mcode[k] = MemberDefault(k)

(***************************************************************************)
(* C23: a run on a scene without a water layer that gets as far as the     *)
(* reopening of the masks ends successfully, with a final mask in which no *)
(* pixel is water.                                                         *)
(***************************************************************************)
C23_NoWaterLayerCompletes ==
  (/\ dswe_file_name = "NULL"
   /\ refined # NoImage
   /\ pc \in {"done", "error", "fault"})
    => /\ pc = "done"
       /\ \A p \in ScenePixels : out_file[p[1]][p[2]] # OUT_WATER

\* the scene has no water layer, the line loop and the opening have run,
\* and the run has ended in open_cfmask_dswe
C23_Witness ==
  /\ dswe_file_name = "NULL"
  /\ line = NLines
  /\ refined # NoImage
  /\ pc \in {"error", "fault"}
  /\ writes = [l \in 1..NLines |-> 1]

(***************************************************************************)
(* C24: whatever calls came before, a get_input_refl_lines,                *)
(* get_input_cfmask_lines or get_input_dswe_lines call made while the file *)
(* it reads is not open returns ERROR and uses no file pointer.            *)
(***************************************************************************)
InputReaders ==
  {"get_input_refl_lines", "get_input_cfmask_lines", "get_input_dswe_lines"}

C24_ReadOfUnopenedFileIsError ==
  (call.op \in InputReaders /\ ~call.file_open)
    => (call.ret = "ERROR" /\ ~call.io)

\* a reader got to its fseek with a file pointer that is not an open file
C24_Witness ==
  /\ call.op \in InputReaders
  /\ ~call.file_open
  /\ call.band_ok
  /\ call.io
  /\ this.refl_open

(***************************************************************************)
(* C25: get_input_refl_lines, get_input_cfmask_lines, put_output_lines and *)
(* get_output_lines return ERROR, and read or write no file and no buffer, *)
(* when the band index is not a band of the structure or the lines         *)
(* iline .. iline+nlines-1 are not all inside the raster.                  *)
(***************************************************************************)
LineAccessors ==
  {"get_input_refl_lines", "get_input_cfmask_lines", "put_output_lines",
   "get_output_lines"}

C25_BadArgumentsRejected ==
  (call.op \in LineAccessors /\ (~call.band_ok \/ ~call.inside))
    => (call.ret = "ERROR" /\ ~call.io)

\* an accessor on an open file, with a first line inside the raster and a
\* last line outside of it, got to its fseek
C25_Witness ==
  /\ call.op \in LineAccessors
  /\ call.file_open
  /\ call.band_ok
  /\ ~call.inside
  /\ call.io

(***************************************************************************)
(* C27: when open_cfmask_dswe returns false, neither of its two files is   *)
(* open, neither of its two buffers is allocated, the structure is marked  *)
(* not open, and it has not closed a file that was not open.               *)
(***************************************************************************)
C27_FailedOpenLeavesNothing ==
  (call.op = "open_cfmask_dswe" /\ call.ret = "false")
    => /\ this.fp_cfmask # "open"
       /\ this.fp_dswe # "open"
       /\ this.cfmask_buf # "alloc"
       /\ this.dswe_buf # "alloc"
       /\ ~this.refl_open
       /\ ~call.misuse

\* open_cfmask_dswe returned false at the open of the DSWE file
C27_Witness ==
  /\ call.op = "open_cfmask_dswe"
  /\ call.ret = "false"
  /\ this.fp_cfmask = "open"
  /\ this.cfmask_buf = "alloc"
  /\ this.fp_dswe = "NULL"
  /\ this.refl_open

(***************************************************************************)
(* C26: the output of buffer does not depend on the order in which the     *)
(* non-zero input pixels are stamped.  The orders compared with the order  *)
(* of the scan are its reverse and every order that exchanges two of its   *)
(* pixels; an output that no exchange of two pixels changes is the output  *)
(* of every order.                                                         *)
(***************************************************************************)
\* the non-zero pixels of the input array, in the order of the scan
ScanOrder ==
  SelectSeq([i \in 1..(BufLines * BufSamps) |-> i - 1],
            LAMBDA p : array[p] # 0)

\* the output array after the stamps of the first k pixels of an order,
\* from the zeros of the memset
RECURSIVE StampAll(_, _)
StampAll(order, k) ==
  IF k = 0 THEN [p \in BufPixels |-> 0]
  ELSE Stamp(StampAll(order, k - 1), array, order[k], distance,
             MakeFilter(distance), BufLines, BufSamps)

Exchanged(order, i, j) ==
  [k \in DOMAIN order |->
     IF k = i THEN order[j] ELSE IF k = j THEN order[i] ELSE order[k]]

OtherOrders ==
  {[k \in DOMAIN ScanOrder |-> ScanOrder[Len(ScanOrder) + 1 - k]]}
    \cup {Exchanged(ScanOrder, i, j) : i, j \in DOMAIN ScanOrder}

AnyOrderGivesOutput ==
  \A order \in OtherOrders : StampAll(order, Len(order)) = buff_array

SameValue == Cardinality({array[p] : p \in NonZero}) <= 1

OwnScaled(k) ==
  IF sca_in[sca_pix].b[k] = sca_par.refl_sat_value
    THEN MAX_REFL
    ELSE sca_in[sca_pix].b[k] * sca_par.refl_scale_fact

C28_SaturationPerBand ==
  (spc = "scaled") => \A k \in ReflBands : b_pix[k] = OwnScaled(k)

\* band 1 is saturated and band 4 is not: band 4 is scaled to 1.0
C28_Witness ==
  /\ spc = "scaled"
  /\ sca_in[sca_pix].b[1] = REFL_SAT
  /\ sca_in[sca_pix].b[4] = 1200
  /\ b_pix[4] = MAX_REFL

(***************************************************************************)
(* C29: post_process_snow_cover_class decides every pixel from the snow    *)
(* mask as it was on entry: the mask it returns is, at every pixel, what   *)
(* the test of that pixel gives on the entry mask, whatever was reset      *)
(* before the pixel was visited.                                           *)
(***************************************************************************)
DecidedOnEntry(p) ==
  PostPixel(snow_entry, tree_node, p, PostLines, PostSamps)[p]

C29_DecidedFromEntryMask ==
  (spc = "postdone") => \A p \in PostPixels : snow_mask[p] = DecidedOnEntry(p)

\* a pixel that the test on the entry mask keeps as snow is reset, after
\* the reset of a pixel of its window
C29_Witness ==
  /\ spc = "postdone"
  /\ \E p, q \in PostPixels :
       /\ q < p
       /\ q \in SnowWindow(p \div PostSamps, p % PostSamps, PostLines, PostSamps)
       /\ snow_entry[q] = SNOW_COVER
       /\ snow_mask[q] = NO_SNOW
       /\ DecidedOnEntry(p) = SNOW_COVER
       /\ snow_mask[p] = NO_SNOW

(***************************************************************************)
(* C30: for every number of lines of the raster, from 1, and every         *)
(* PROC_NLINES, the passes of the loops take at least one line each, the   *)
(* first starts at line 0, each starts where the one before it ended, none *)
(* ends past the last line, and at the end of the loop every line          *)
(* 0..nlines-1 is in exactly one pass.                                     *)
(***************************************************************************)
LinesOf(c) == c.line..(c.line + c.nlines - 1)

TimesProcessed(l) ==
  Cardinality({i \in DOMAIN chunks : l \in LinesOf(chunks[i])})

C30_EachLineOnce ==
  /\ \A i \in DOMAIN chunks :
       /\ chunks[i].nlines >= 1
       /\ chunks[i].line = IF i = 1 THEN 0
                           ELSE chunks[i - 1].line + chunks[i - 1].nlines
       /\ chunks[i].line + chunks[i].nlines <= loop_nlines
  /\ (cpc = "done") =>
       /\ \A l \in 0..(loop_nlines - 1) : TimesProcessed(l) = 1
       /\ \A l \in loop_nlines..(MaxRaster + MaxProc) : TimesProcessed(l) = 0

\* a raster that takes whole passes and a shorter last one
C30_Witness ==
  /\ cpc = "done"
  /\ Len(chunks) >= 3
  /\ chunks[1].nlines = proc_nlines
  /\ chunks[Len(chunks)].nlines < proc_nlines
  /\ chunks[Len(chunks)].line + chunks[Len(chunks)].nlines = loop_nlines
====
